---- MODULE Spec2Model ----
(***************************************************************************)
(* NoteFlow: the note recorder (note_recorder.py) with its chord detector  *)
(* (chord_detector.py) and the MIDI note naming (midi_handler.py).         *)
(*                                                                         *)
(* Time is counted in ticks of 50 ms, so the 0.05 s chord window of the    *)
(* recorder is 1 tick.  The wall clock (time.time()) is the variable `now`;*)
(* it only moves forward and is read by start_recording and add_note.      *)
(***************************************************************************)
EXTENDS Integers, Sequences, FiniteSets, TLC

\* ------------------------------------------------------------------------
\* Bounds of the model
\* ------------------------------------------------------------------------
\* largest clock value (ticks); the clock starts at 1
MaxTime == 3
\* largest length of the raw-note log
MaxNotes == 3
\* largest length of the raw-note log in a single start..stop session
MaxSessionNotes == 4
\* MIDI numbers the device delivers: C4, G4
Pitches == {60, 67}
\* MIDI numbers the device delivers in a single session: C4, E4, G4, A4
SessionPitches == {60, 64, 67, 69}
\* velocities the device delivers
Velocities == {80}
\* the lowest notes of the chord voicings handed to the detector: C3 .. B4
Basses == 48..71
\* MIDI numbers of the other note lists handed to the detector
FreePitches == {0, 60, 62, 64, 67, 72, 127}
\* largest length of those other note lists
MaxClusterLen == 3
\* the semitone offsets handed to normalize_intervals: below zero, within
\* one octave, beyond one octave
Offsets == {0 - 13, 0 - 1, 0, 4, 7, 12, 14, 19}
\* largest length of a list of offsets
MaxOffsets == 3
\* onsets of the notes of a recording cut into sections, in ticks after its
\* start: 40 ticks are 2.0 s, 60 ticks are 3.0 s
OnsetTimes == {0, 20, 40, 60, 100}
\* largest number of events of such a recording
MaxSectionEvents == 3
\* the pause thresholds handed to detect_sections, in ticks (default 2.0 s)
PauseThresholds == {0 - 1, 0, 40}
\* MIDI numbers delivered to a recorder that also loads files: G4
LoadPitches == {67}
\* Largest length of a log or of the pending cluster at a note-on there
MaxLoadNotes == 2
\* the MIDI input devices of the machine
Devices == {"Piano", "Pad"}
\* the messages a device sends: C4 pressed, D4 as a note_on of velocity 0,
\* C4 released, a controller moved
MidiMessages ==
    {[type |-> "note_on", note |-> 60, velocity |-> 80],
     [type |-> "note_on", note |-> 62, velocity |-> 0],
     [type |-> "note_off", note |-> 60, velocity |-> 64],
     [type |-> "control_change"]}
\* largest number of messages waiting in the port
MaxPortMessages == 2
\* messages arrive while the raw-note log is shorter than this
MaxMidiNotes == 2
\* the keys played in the recordings that are displayed: E4 G4 C5
ViewPitches == {64, 67, 72}
\* largest number of notes of such a recording
MaxViewNotes == 3

\* Python's None for an optional time: clock values are never negative
None == 0 - 1

\* ------------------------------------------------------------------------
\* midi_handler.py
\* ------------------------------------------------------------------------
NOTE_NAMES == <<"C", "C#", "D", "D#", "E", "F", "F#", "G", "G#", "A", "A#", "B">>

\* f"{note}{octave}"
midi_to_note(midi_number) ==
    LET octave == (midi_number \div 12) - 1
        note == NOTE_NAMES[(midi_number % 12) + 1]
    IN  note \o ToString(octave)

\* ------------------------------------------------------------------------
\* chord_detector.py
\* ------------------------------------------------------------------------
\* CHORD_PATTERNS in declaration (dict insertion) order
CHORD_PATTERNS ==
    << [quality |-> "maj",   pattern |-> <<0, 4, 7>>],
       [quality |-> "min",   pattern |-> <<0, 3, 7>>],
       [quality |-> "dim",   pattern |-> <<0, 3, 6>>],
       [quality |-> "aug",   pattern |-> <<0, 4, 8>>],
       [quality |-> "sus2",  pattern |-> <<0, 2, 7>>],
       [quality |-> "sus4",  pattern |-> <<0, 5, 7>>],
       [quality |-> "7",     pattern |-> <<0, 4, 7, 10>>],
       [quality |-> "maj7",  pattern |-> <<0, 4, 7, 11>>],
       [quality |-> "min7",  pattern |-> <<0, 3, 7, 10>>],
       [quality |-> "dim7",  pattern |-> <<0, 3, 6, 9>>],
       [quality |-> "ø7",    pattern |-> <<0, 3, 6, 10>>],
       [quality |-> "mMaj7", pattern |-> <<0, 3, 7, 11>>],
       [quality |-> "9",     pattern |-> <<0, 4, 7, 10, 14>>],
       [quality |-> "maj9",  pattern |-> <<0, 4, 7, 11, 14>>],
       [quality |-> "min9",  pattern |-> <<0, 3, 7, 10, 14>>],
       [quality |-> "11",    pattern |-> <<0, 4, 7, 10, 14, 17>>],
       [quality |-> "13",    pattern |-> <<0, 4, 7, 10, 14, 17, 21>>],
       [quality |-> "add9",  pattern |-> <<0, 4, 7, 14>>],
       [quality |-> "add11", pattern |-> <<0, 4, 7, 17>>],
       [quality |-> "5",     pattern |-> <<0, 7>>] >>

CHORD_FULL_NAMES ==
    [q \in {CHORD_PATTERNS[i].quality : i \in 1..Len(CHORD_PATTERNS)} |->
        CASE q = "maj"   -> "Major"
          [] q = "min"   -> "Minor"
          [] q = "dim"   -> "Diminished"
          [] q = "aug"   -> "Augmented"
          [] q = "sus2"  -> "Suspended 2nd"
          [] q = "sus4"  -> "Suspended 4th"
          [] q = "7"     -> "Dominant 7th"
          [] q = "maj7"  -> "Major 7th"
          [] q = "min7"  -> "Minor 7th"
          [] q = "dim7"  -> "Diminished 7th"
          [] q = "ø7"    -> "Half-Diminished 7th"
          [] q = "mMaj7" -> "Minor-Major 7th"
          [] q = "9"     -> "9th"
          [] q = "maj9"  -> "Major 9th"
          [] q = "min9"  -> "Minor 9th"
          [] q = "11"    -> "11th"
          [] q = "13"    -> "13th"
          [] q = "add9"  -> "Add 9"
          [] q = "add11" -> "Add 11"
          [] q = "5"     -> "Power Chord"]

\* sorted(S) for a finite set of integers
RECURSIVE sorted(_)
sorted(S) ==
    IF S = {} THEN <<>>
    ELSE LET m == CHOOSE x \in S : \A y \in S : x <= y
         IN  <<m>> \o sorted(S \ {m})

\* sorted(list) for a list of integers, duplicates kept
RECURSIVE sorted_list(_)
sorted_list(s) ==
    IF s = <<>> THEN <<>>
    ELSE LET i == CHOOSE k \in 1..Len(s) : \A j \in 1..Len(s) : s[k] <= s[j]
         IN  <<s[i]>> \o sorted_list(SubSeq(s, 1, i - 1) \o SubSeq(s, i + 1, Len(s)))

\* the offsets sorted and freed of repeats, but not reduced to one octave
normalize_intervals_no_octave(intervals) ==
    sorted({intervals[i] : i \in 1..Len(intervals)})

\* the offsets reduced to one octave and sorted, repeats kept
normalize_intervals_keep_repeats(intervals) ==
    sorted_list([i \in 1..Len(intervals) |-> intervals[i] % 12])

\* sorted(set([i % 12 for i in intervals]))
normalize_intervals(intervals) ==
    sorted({intervals[i] % 12 : i \in 1..Len(intervals)})

\* rotation 0 handed back as declared, without normalize_intervals
_get_intervals_from_rotation_raw(pattern, rotation) ==
    IF rotation = 0 THEN pattern
    ELSE LET bass_interval == pattern[rotation + 1]
         IN  sorted({(pattern[i] - bass_interval) % 12 : i \in 1..Len(pattern)})

\* the inversion taken from the note before the one named by `rotation`
_get_intervals_from_rotation_note_before(pattern, rotation) ==
    IF rotation = 0 THEN normalize_intervals(pattern)
    ELSE LET bass_interval == pattern[rotation]
         IN  sorted({(pattern[i] - bass_interval) % 12 : i \in 1..Len(pattern)})

\* rotation counts from 0 as in the source; pattern[rotation] is 0-based there
_get_intervals_from_rotation(pattern, rotation) ==
    IF rotation = 0 THEN normalize_intervals(pattern)
    ELSE LET bass_interval == pattern[rotation + 1]
         IN  sorted({(pattern[i] - bass_interval) % 12 : i \in 1..Len(pattern)})

\* quality == "5" glues the quality to the root, every other one has a space
chord_display_name(root_note, quality) ==
    IF quality = "5" THEN root_note \o quality ELSE root_note \o " " \o quality

\* the root sought above the bass by the bass interval instead of below it
chord_info_root_above(k, rotation, intervals, bass_midi) ==
    LET quality == CHORD_PATTERNS[k].quality
        pattern == CHORD_PATTERNS[k].pattern
        root_offset == IF rotation = 0 THEN 0 ELSE pattern[rotation + 1] % 12
        root_midi == (bass_midi + root_offset) % 12
        root_note == NOTE_NAMES[root_midi + 1]
    IN  [root |-> root_note,
         quality |-> quality,
         full_name |-> root_note \o " " \o CHORD_FULL_NAMES[quality],
         display_name |-> chord_display_name(root_note, quality),
         pattern |-> pattern,
         root_offset |-> root_offset,
         inversion |-> rotation,
         type |-> IF Len(intervals) >= 3 THEN "chord" ELSE "interval"]

\* every match tagged 'chord', whatever the number of pitch classes
chord_info_always_chord(k, rotation, intervals, bass_midi) ==
    LET quality == CHORD_PATTERNS[k].quality
        pattern == CHORD_PATTERNS[k].pattern
        root_offset == IF rotation = 0 THEN 0 ELSE (12 - pattern[rotation + 1]) % 12
        root_midi == (bass_midi + root_offset) % 12
        root_note == NOTE_NAMES[root_midi + 1]
    IN  [root |-> root_note,
         quality |-> quality,
         full_name |-> root_note \o " " \o CHORD_FULL_NAMES[quality],
         display_name |-> chord_display_name(root_note, quality),
         pattern |-> pattern,
         root_offset |-> root_offset,
         inversion |-> rotation,
         type |-> "chord"]

\* the dictionary built for template number k matched at `rotation`
chord_info(k, rotation, intervals, bass_midi) ==
    LET quality == CHORD_PATTERNS[k].quality
        pattern == CHORD_PATTERNS[k].pattern
        root_offset == IF rotation = 0 THEN 0 ELSE (12 - pattern[rotation + 1]) % 12
        root_midi == (bass_midi + root_offset) % 12
        root_note == NOTE_NAMES[root_midi + 1]
    IN  [root |-> root_note,
         quality |-> quality,
         full_name |-> root_note \o " " \o CHORD_FULL_NAMES[quality],
         display_name |-> chord_display_name(root_note, quality),
         pattern |-> pattern,
         root_offset |-> root_offset,
         inversion |-> rotation,
         type |-> IF Len(intervals) >= 3 THEN "chord" ELSE "interval"]

\* Python's None as the result of a failed match
NoMatch == [type |-> "None"]

\* the second pass stopping one rotation short: range(1, len(pattern) - 1)
InversionHits_skip_last(intervals) ==
    UNION {{<<k, r>> : r \in {x \in 1..(Len(CHORD_PATTERNS[k].pattern) - 2) :
                sorted_list(_get_intervals_from_rotation(CHORD_PATTERNS[k].pattern, x))
                   = sorted_list(intervals)}} : k \in 1..Len(CHORD_PATTERNS)}

\* the (template, rotation) pairs of the second pass: range(1, len(pattern))
InversionHits(intervals) ==
    UNION {{<<k, r>> : r \in {x \in 1..(Len(CHORD_PATTERNS[k].pattern) - 1) :
                sorted_list(_get_intervals_from_rotation(CHORD_PATTERNS[k].pattern, x))
                   = sorted_list(intervals)}} : k \in 1..Len(CHORD_PATTERNS)}

\* one pass over the templates, each tried at rotation 0 and then at its
\* inversions before the next template
_match_chord_pattern_single_pass(intervals, bass_midi) ==
    LET hits == UNION {{<<k, r>> : r \in {x \in 0..(Len(CHORD_PATTERNS[k].pattern) - 1) :
                    sorted_list(_get_intervals_from_rotation(CHORD_PATTERNS[k].pattern, x))
                       = sorted_list(intervals)}} : k \in 1..Len(CHORD_PATTERNS)}
    IN  IF hits # {}
        THEN LET first == CHOOSE kr \in hits : \A o \in hits :
                              \/ kr[1] < o[1]
                              \/ (kr[1] = o[1] /\ kr[2] <= o[2])
             IN  chord_info(first[1], first[2], intervals, bass_midi)
        ELSE NoMatch

\* both passes, the last-declared hit of a pass returned
_match_chord_pattern_last_declared(intervals, bass_midi) ==
    LET rootHits == {k \in 1..Len(CHORD_PATTERNS) :
                        sorted_list(_get_intervals_from_rotation(CHORD_PATTERNS[k].pattern, 0))
                           = sorted_list(intervals)}
        invHits == InversionHits(intervals)
    IN  IF rootHits # {}
        THEN chord_info(CHOOSE k \in rootHits : \A j \in rootHits : k >= j,
                        0, intervals, bass_midi)
        ELSE IF invHits # {}
        THEN LET first == CHOOSE kr \in invHits : \A o \in invHits :
                              \/ kr[1] > o[1]
                              \/ (kr[1] = o[1] /\ kr[2] <= o[2])
             IN  chord_info(first[1], first[2], intervals, bass_midi)
        ELSE NoMatch

\* first pass over the templates at rotation 0, then second pass over the
\* rotations; the first hit in loop order is returned, None when no hit
_match_chord_pattern(intervals, bass_midi) ==
    LET rootHits == {k \in 1..Len(CHORD_PATTERNS) :
                        sorted_list(_get_intervals_from_rotation(CHORD_PATTERNS[k].pattern, 0))
                           = sorted_list(intervals)}
        invHits == InversionHits(intervals)
    IN  IF rootHits # {}
        THEN chord_info(CHOOSE k \in rootHits : \A j \in rootHits : k <= j,
                        0, intervals, bass_midi)
        ELSE IF invHits # {}
        THEN LET first == CHOOSE kr \in invHits : \A o \in invHits :
                              \/ kr[1] < o[1]
                              \/ (kr[1] = o[1] /\ kr[2] <= o[2])
             IN  chord_info(first[1], first[2], intervals, bass_midi)
        ELSE NoMatch

\* the names last arrival first
note_names_reversed(ns) == [i \in 1..Len(ns) |-> ns[Len(ns) + 1 - i].note_name]

\* [note['note_name'] for note in notes]
note_names(ns) == [i \in 1..Len(ns) |-> ns[i].note_name]

\* the tag of a match taken from the number of notes of the cluster
detect_chord_tag_by_note_count(ns) ==
    IF Len(ns) < 2 THEN NoMatch
    ELSE LET midi_numbers == sorted_list([i \in 1..Len(ns) |-> ns[i].midi_number])
             bass_midi == midi_numbers[1]
             bass_note == ns[1].note_name
             intervals == [i \in 1..Len(midi_numbers) |-> midi_numbers[i] - bass_midi]
             normalized_intervals == normalize_intervals(intervals)
             info == _match_chord_pattern(normalized_intervals, bass_midi)
         IN  IF info # NoMatch
             THEN [f \in DOMAIN info \cup {"bass_note", "notes"} |->
                      IF f = "bass_note" THEN bass_note
                      ELSE IF f = "notes" THEN note_names(ns)
                      ELSE IF f = "type"
                      THEN (IF Len(ns) >= 3 THEN "chord" ELSE "interval")
                      ELSE info[f]]
             ELSE NoMatch

\* None for fewer than 2 notes or no matching template
detect_chord(ns) ==
    IF Len(ns) < 2 THEN NoMatch
    ELSE LET midi_numbers == sorted_list([i \in 1..Len(ns) |-> ns[i].midi_number])
             bass_midi == midi_numbers[1]
             bass_note == ns[1].note_name
             intervals == [i \in 1..Len(midi_numbers) |-> midi_numbers[i] - bass_midi]
             normalized_intervals == normalize_intervals(intervals)
             info == _match_chord_pattern(normalized_intervals, bass_midi)
         IN  IF info # NoMatch
             THEN [f \in DOMAIN info \cup {"bass_note", "notes"} |->
                      IF f = "bass_note" THEN bass_note
                      ELSE IF f = "notes" THEN note_names(ns)
                      ELSE info[f]]
             ELSE NoMatch

\* ' + '.join(names) and ' and '.join(names)
RECURSIVE join(_, _)
join(sep, names) ==
    IF names = <<>> THEN ""
    ELSE IF Len(names) = 1 THEN names[1]
    ELSE names[1] \o sep \o join(sep, Tail(names))

\* note_name.rstrip('0123456789-') for the names midi_to_note produces
rstrip_octave(name) ==
    LET m == CHOOSE k \in 0..127 : midi_to_note(k) = name
    IN  NOTE_NAMES[(m % 12) + 1]

\* no branch for a single note: it goes through detect_chord like a cluster
classify_notes_no_single(ns) ==
    IF Len(ns) = 0
    THEN [type |-> "empty", display_name |-> "", notes |-> <<>>]
    ELSE LET info == detect_chord(ns)
         IN  IF info # NoMatch
             THEN [f \in DOMAIN info \cup {"timestamp", "relative_time"} |->
                      IF f = "timestamp" THEN ns[1].timestamp
                      ELSE IF f = "relative_time" THEN ns[1].relative_time
                      ELSE info[f]]
             ELSE [type |-> IF Len(ns) = 2 THEN "interval" ELSE "notes",
                   display_name |-> join(" + ", note_names(ns)),
                   full_name |-> join(" and ", note_names(ns)),
                   notes |-> note_names(ns),
                   timestamp |-> ns[1].timestamp,
                   relative_time |-> ns[1].relative_time]

classify_notes(ns) ==
    IF Len(ns) = 0
    THEN [type |-> "empty", display_name |-> "", notes |-> <<>>]
    ELSE IF Len(ns) = 1
    THEN [type |-> "note",
          display_name |-> ns[1].note_name,
          full_name |-> ns[1].note_name,
          notes |-> <<ns[1].note_name>>,
          root |-> rstrip_octave(ns[1].note_name)]
    ELSE LET info == detect_chord(ns)
         IN  IF info # NoMatch
             THEN [f \in DOMAIN info \cup {"timestamp", "relative_time"} |->
                      IF f = "timestamp" THEN ns[1].timestamp
                      ELSE IF f = "relative_time" THEN ns[1].relative_time
                      ELSE info[f]]
             ELSE [type |-> IF Len(ns) = 2 THEN "interval" ELSE "notes",
                   display_name |-> join(" + ", note_names(ns)),
                   full_name |-> join(" and ", note_names(ns)),
                   notes |-> note_names(ns),
                   timestamp |-> ns[1].timestamp,
                   relative_time |-> ns[1].relative_time]

\* ------------------------------------------------------------------------
\* note_recorder.py: the state of one NoteRecorder and the wall clock
\* ------------------------------------------------------------------------
VARIABLES notes, is_recording, recording_start_time, chord_detection_enabled,
          pending_notes, last_note_time, recorded_events, now, op

\* midi_handler.py: the fields of the one MIDIHandler; port_messages are the
\* messages waiting in the open port; polling is TRUE while the loop of
\* poll_messages has messages left to hand out
VARIABLES input_port, note_on_callback, note_off_callback, connected_device,
          port_messages, polling

\* op is the call that produced the current state (a history variable)
vars == <<notes, is_recording, recording_start_time, chord_detection_enabled,
          pending_notes, last_note_time, recorded_events, now, op,
          input_port, note_on_callback, note_off_callback, connected_device,
          port_messages, polling>>

midi == <<input_port, note_on_callback, note_off_callback, connected_device,
          port_messages, polling>>

\* Python's None for the optional port, device name and callbacks
NoPort == "None"

\* MIDIHandler.__init__, no message waiting and no poll running
MIDIHandler_init ==
    /\ input_port = NoPort
    /\ note_on_callback = NoPort
    /\ note_off_callback = NoPort
    /\ connected_device = NoPort
    /\ port_messages = <<>>
    /\ polling = FALSE

recorder == <<notes, is_recording, recording_start_time, chord_detection_enabled,
              pending_notes, last_note_time, recorded_events>>

\* self.chord_time_window = 0.05, in ticks of 50 ms
chord_time_window == 1

Init ==
    /\ MIDIHandler_init
    /\ notes = <<>>
    /\ is_recording = FALSE
    /\ recording_start_time = None
    /\ chord_detection_enabled = TRUE
    /\ pending_notes = <<>>
    /\ last_note_time = None
    /\ recorded_events = <<>>
    /\ now = 1
    /\ op = [name |-> "init"]

\* time.time() moves on between two calls
Tick ==
    /\ UNCHANGED midi
    /\ now < MaxTime
    /\ now' = now + 1
    /\ op' = [name |-> "tick"]
    /\ UNCHANGED recorder

\* a start that also wipes the two logs, as a fresh recording would
start_recording_fresh ==
    /\ UNCHANGED midi
    /\ is_recording' = TRUE
    /\ recording_start_time' = now
    /\ pending_notes' = <<>>
    /\ last_note_time' = None
    /\ notes' = <<>>
    /\ recorded_events' = <<>>
    /\ op' = [name |-> "start_recording"]
    /\ UNCHANGED <<chord_detection_enabled, now>>

start_recording ==
    /\ UNCHANGED midi
    /\ is_recording' = TRUE
    /\ recording_start_time' = now
    /\ pending_notes' = <<>>
    /\ last_note_time' = None
    /\ op' = [name |-> "start_recording"]
    /\ UNCHANGED <<notes, chord_detection_enabled, recorded_events, now>>

\* the event built for one note, by add_note without chord detection and by
\* _process_pending_notes for a pending list of one note
single_note_event(note) ==
    [type |-> "note",
     display_name |-> note.note_name,
     notes |-> <<note.note_name>>,
     timestamp |-> note.timestamp,
     relative_time |-> note.relative_time]

\* a flush that starts the event log anew with the flushed event
_process_pending_notes_replacing(events, pending) ==
    IF pending = <<>> THEN events
    ELSE IF Len(pending) = 1 THEN <<single_note_event(pending[1])>>
    ELSE <<classify_notes(pending)>>

\* a flush that hands the cluster to the classifier newest note first
_process_pending_notes_newest_first(events, pending) ==
    IF pending = <<>> THEN events
    ELSE IF Len(pending) = 1 THEN Append(events, single_note_event(pending[1]))
    ELSE Append(events,
                classify_notes([i \in 1..Len(pending) |-> pending[Len(pending) + 1 - i]]))

\* the event log after _process_pending_notes (it then clears pending_notes)
_process_pending_notes(events, pending) ==
    IF pending = <<>> THEN events
    ELSE IF Len(pending) = 1 THEN Append(events, single_note_event(pending[1]))
    ELSE Append(events, classify_notes(pending))

\* a stop whose flush still waits for the chord window to pass
stop_recording_unforced ==
    /\ UNCHANGED midi
    /\ recorded_events' = IF pending_notes # <<>> /\ now - last_note_time > chord_time_window
                          THEN _process_pending_notes(recorded_events, pending_notes)
                          ELSE recorded_events
    /\ pending_notes' = <<>>
    /\ is_recording' = FALSE
    /\ op' = [name |-> "stop_recording"]
    /\ UNCHANGED <<notes, recording_start_time, chord_detection_enabled,
                   last_note_time, now>>

\* a stop that classifies the pending notes even when there are none
stop_recording_unguarded ==
    /\ UNCHANGED midi
    /\ recorded_events' = IF Len(pending_notes) = 1
                          THEN Append(recorded_events, single_note_event(pending_notes[1]))
                          ELSE Append(recorded_events, classify_notes(pending_notes))
    /\ pending_notes' = <<>>
    /\ is_recording' = FALSE
    /\ op' = [name |-> "stop_recording"]
    /\ UNCHANGED <<notes, recording_start_time, chord_detection_enabled,
                   last_note_time, now>>

\* a stop that flushes the pending notes and keeps them pending
stop_recording_keeps_cluster ==
    /\ UNCHANGED midi
    /\ recorded_events' = IF pending_notes # <<>>
                          THEN _process_pending_notes(recorded_events, pending_notes)
                          ELSE recorded_events
    /\ is_recording' = FALSE
    /\ op' = [name |-> "stop_recording"]
    /\ UNCHANGED <<notes, recording_start_time, chord_detection_enabled,
                   pending_notes, last_note_time, now>>

stop_recording ==
    /\ UNCHANGED midi
    /\ recorded_events' = IF pending_notes # <<>>
                          THEN _process_pending_notes(recorded_events, pending_notes)
                          ELSE recorded_events
    /\ pending_notes' = <<>>
    /\ is_recording' = FALSE
    /\ op' = [name |-> "stop_recording"]
    /\ UNCHANGED <<notes, recording_start_time, chord_detection_enabled,
                   last_note_time, now>>

\* a clear that forgets the pending notes
clear_recording_keeps_pending ==
    /\ UNCHANGED midi
    /\ notes' = <<>>
    /\ recorded_events' = <<>>
    /\ recording_start_time' = None
    /\ last_note_time' = None
    /\ op' = [name |-> "clear_recording"]
    /\ UNCHANGED <<is_recording, chord_detection_enabled, pending_notes, now>>

clear_recording ==
    /\ UNCHANGED midi
    /\ notes' = <<>>
    /\ recorded_events' = <<>>
    /\ pending_notes' = <<>>
    /\ recording_start_time' = None
    /\ last_note_time' = None
    /\ op' = [name |-> "clear_recording"]
    /\ UNCHANGED <<is_recording, chord_detection_enabled, now>>

\* a setter that flushes the pending notes when the setting changes
set_chord_detection_flushing(enabled) ==
    /\ UNCHANGED midi
    /\ chord_detection_enabled' = enabled
    /\ recorded_events' = IF enabled # chord_detection_enabled
                          THEN _process_pending_notes(recorded_events, pending_notes)
                          ELSE recorded_events
    /\ pending_notes' = IF enabled # chord_detection_enabled THEN <<>> ELSE pending_notes
    /\ op' = [name |-> "set_chord_detection", enabled |-> enabled]
    /\ UNCHANGED <<notes, is_recording, recording_start_time, last_note_time, now>>

set_chord_detection(enabled) ==
    /\ UNCHANGED midi
    /\ chord_detection_enabled' = enabled
    /\ op' = [name |-> "set_chord_detection", enabled |-> enabled]
    /\ UNCHANGED <<notes, is_recording, recording_start_time, pending_notes,
                   last_note_time, recorded_events, now>>

\* timestamp - self.recording_start_time if self.recording_start_time else 0
relative_time_of(timestamp) ==
    IF recording_start_time # None /\ recording_start_time # 0
    THEN timestamp - recording_start_time
    ELSE 0

\* notes taken in any state
accepts_notes_always == TRUE

\* the guard of add_note: notes are accepted only while recording
accepts_notes == is_recording

\* a raw log kept only for the clustered notes
raw_log_after_clustered(note_data) ==
    IF chord_detection_enabled THEN Append(notes, note_data) ELSE notes

\* self.notes.append(note_data), whatever the chord detection setting
raw_log_after(note_data) == Append(notes, note_data)

\* clustering that ignores the setting
uses_clustering_always == TRUE

\* the branch of add_note that clusters the note
uses_clustering == chord_detection_enabled

\* a window that closes at a gap equal to the window
window_expired_at_equal(timestamp) ==
    /\ last_note_time # None
    /\ timestamp - last_note_time >= chord_time_window

\* a window measured from the first pending note
window_expired_from_first(timestamp) ==
    /\ last_note_time # None
    /\ pending_notes # <<>>
    /\ timestamp - pending_notes[1].timestamp > chord_time_window

\* the test that sends the pending notes to _process_pending_notes
window_expired(timestamp) ==
    /\ last_note_time # None
    /\ timestamp - last_note_time > chord_time_window

add_note(note_name, midi_number, velocity) ==
    /\ op' = [name |-> "add_note", midi_number |-> midi_number]
    /\ UNCHANGED now
    /\ IF ~accepts_notes
       THEN UNCHANGED recorder
       ELSE LET timestamp == now
                note_data == [note_name |-> note_name,
                              midi_number |-> midi_number,
                              velocity |-> velocity,
                              timestamp |-> timestamp,
                              relative_time |-> relative_time_of(timestamp)]
                flush == window_expired(timestamp)
            IN  /\ notes' = raw_log_after(note_data)
                /\ UNCHANGED <<is_recording, recording_start_time,
                               chord_detection_enabled>>
                /\ IF uses_clustering
                   THEN /\ recorded_events' =
                              IF flush
                              THEN _process_pending_notes(recorded_events, pending_notes)
                              ELSE recorded_events
                        /\ pending_notes' =
                              Append(IF flush THEN <<>> ELSE pending_notes, note_data)
                        /\ last_note_time' = timestamp
                   ELSE /\ recorded_events' =
                              Append(recorded_events, single_note_event(note_data))
                        /\ UNCHANGED <<pending_notes, last_note_time>>

\* a pause equal to the threshold splits too
pause_exceeds_or_equal(pause_duration, pause_threshold) ==
    pause_duration >= pause_threshold

\* if pause_duration > pause_threshold
pause_exceeds(pause_duration, pause_threshold) ==
    pause_duration > pause_threshold

\* the section under way dropped instead of appended
close_section_dropped(sections, current_section) == sections

\* if current_section: sections.append(current_section)
close_section(sections, current_section) ==
    IF current_section # <<>> THEN Append(sections, current_section) ELSE sections

\* event.get('relative_time', 0)
event_time_of(event) ==
    IF "relative_time" \in DOMAIN event THEN event.relative_time ELSE 0

\* the loop of detect_sections from event number i on; last_time is None
\* before the first event
RECURSIVE sections_loop(_, _, _, _, _, _)
sections_loop(events, i, sections, current_section, last_time, pause_threshold) ==
    IF i > Len(events)
    THEN close_section(sections, current_section)
    ELSE LET event == events[i]
             event_time == event_time_of(event)
             split == /\ last_time # None
                      /\ pause_exceeds(event_time - last_time, pause_threshold)
         IN  sections_loop(events, i + 1,
                           IF split THEN close_section(sections, current_section)
                           ELSE sections,
                           Append(IF split THEN <<>> ELSE current_section, event),
                           event_time, pause_threshold)

detect_sections(pause_threshold) ==
    IF recorded_events = <<>> THEN <<>>
    ELSE sections_loop(recorded_events, 1, <<>>, <<>>, None, pause_threshold)

\* ------------------------------------------------------------------------
\* note_recorder.py: save_to_file and load_from_file. A JSON text is held as
\* the tree of its values: {"number": n}, {"string": s}, {"bool": b},
\* {"array": [...]}, {"object": {key: value}}
\* ------------------------------------------------------------------------
\* json.dump of one raw note: note_name is a string, the rest are numbers
json_note(note) ==
    [object |-> [k \in DOMAIN note |->
        IF k = "note_name" THEN [string |-> note[k]] ELSE [number |-> note[k]]]]

\* json.dump of one event: names are strings, notes a list of strings,
\* pattern a list of numbers, the rest are numbers
json_event(event) ==
    [object |-> [k \in DOMAIN event |->
        IF k \in {"type", "display_name", "full_name", "root", "quality", "bass_note"}
        THEN [string |-> event[k]]
        ELSE IF k = "notes"
        THEN [array |-> [i \in 1..Len(event[k]) |-> [string |-> event[k][i]]]]
        ELSE IF k = "pattern"
        THEN [array |-> [i \in 1..Len(event[k]) |-> [number |-> event[k][i]]]]
        ELSE [number |-> event[k]]]]

\* self.notes[-1]['relative_time'], 0.0 without notes
get_duration == IF notes = <<>> THEN 0 ELSE notes[Len(notes)].relative_time

\* the saved record without the chord detection setting
save_data_without_setting ==
    [object |->
        [recording_date |-> [string |-> ToString(now)],
         note_count |-> [number |-> Len(notes)],
         duration |-> [number |-> get_duration],
         notes |-> [array |-> [i \in 1..Len(notes) |-> json_note(notes[i])]],
         events |-> [array |-> [i \in 1..Len(recorded_events) |->
                                   json_event(recorded_events[i])]]]]

\* json.dump(data, f) for the data built by save_to_file
save_data ==
    [object |->
        [recording_date |-> [string |-> ToString(now)],
         note_count |-> [number |-> Len(notes)],
         duration |-> [number |-> get_duration],
         notes |-> [array |-> [i \in 1..Len(notes) |-> json_note(notes[i])]],
         events |-> [array |-> [i \in 1..Len(recorded_events) |->
                                   json_event(recorded_events[i])]],
         chord_detection_enabled |-> [bool |-> chord_detection_enabled]]]

\* json.load: numbers, strings and booleans as they are, arrays as lists,
\* objects as dictionaries
RECURSIVE json_load(_)
json_load(v) ==
    IF "number" \in DOMAIN v THEN v.number
    ELSE IF "string" \in DOMAIN v THEN v.string
    ELSE IF "bool" \in DOMAIN v THEN v.bool
    ELSE IF "array" \in DOMAIN v
    THEN [i \in 1..Len(v.array) |-> json_load(v.array[i])]
    ELSE [k \in DOMAIN v.object |-> json_load(v.object[k])]

\* data.get(key, default)
dict_get(data, key, default) == IF key \in DOMAIN data THEN data[key] ELSE default

\* save_to_file: the file is written and True returned; the recorder is
\* left as it is
save_to_file ==
    /\ UNCHANGED midi
    /\ op' = [name |-> "save_to_file", file |-> save_data, result |-> TRUE,
              saved |-> [notes |-> notes, events |-> recorded_events,
                         chord_detection_enabled |-> chord_detection_enabled]]
    /\ UNCHANGED <<recorder, now>>

\* the three assignments of load_from_file from the file `file`
load_from_file(file) ==
    LET data == json_load(file)
    IN  /\ notes' = dict_get(data, "notes", <<>>)
        /\ recorded_events' = dict_get(data, "events", <<>>)
        /\ chord_detection_enabled' = dict_get(data, "chord_detection_enabled", TRUE)

\* a saved recording of one note, as save_to_file writes it
SampleNote ==
    [note_name |-> "G4", midi_number |-> 67, velocity |-> 80,
     timestamp |-> 1, relative_time |-> 0]

SampleRecord ==
    [object |->
        [recording_date |-> [string |-> "1"],
         note_count |-> [number |-> 1],
         duration |-> [number |-> 0],
         notes |-> [array |-> <<json_note(SampleNote)>>],
         events |-> [array |-> <<json_event(single_note_event(SampleNote))>>],
         chord_detection_enabled |-> [bool |-> FALSE]]]

\* the files load_from_file can be pointed at: no file at the path, a file
\* that cannot be opened, a file that is not JSON, JSON texts that are not
\* an object (an array, a number), an object without any of the three keys,
\* and a saved recording
Files ==
    {[exists |-> FALSE],
     [exists |-> TRUE, readable |-> FALSE],
     [exists |-> TRUE, readable |-> TRUE, is_json |-> FALSE],
     [exists |-> TRUE, readable |-> TRUE, is_json |-> TRUE,
      json |-> [array |-> <<[number |-> 1]>>]],
     [exists |-> TRUE, readable |-> TRUE, is_json |-> TRUE,
      json |-> [number |-> 1]],
     [exists |-> TRUE, readable |-> TRUE, is_json |-> TRUE,
      json |-> [object |-> <<>>]],
     [exists |-> TRUE, readable |-> TRUE, is_json |-> TRUE,
      json |-> SampleRecord]}

\* what the try block of load_from_file raises before its first assignment:
\* "" when it raises nothing
load_error(f) ==
    IF ~f.exists THEN "not found"
    ELSE IF ~f.readable THEN "PermissionError"
    ELSE IF ~f.is_json THEN "JSONDecodeError"
    ELSE IF "object" \notin DOMAIN f.json THEN "AttributeError"
    ELSE ""

\* a load that also puts the recorder back into its idle state
load_from_path_resetting(f) ==
    /\ UNCHANGED midi
    /\ IF load_error(f) # ""
       THEN /\ op' = [name |-> "load_from_file", file |-> f, result |-> FALSE]
            /\ UNCHANGED <<recorder, now>>
       ELSE /\ op' = [name |-> "load_from_file", file |-> f, result |-> TRUE]
            /\ load_from_file(f.json)
            /\ is_recording' = FALSE
            /\ recording_start_time' = None
            /\ pending_notes' = <<>>
            /\ last_note_time' = None
            /\ UNCHANGED now

\* a load that assigns the notes before it finds the record is no mapping
load_from_path_assigning_first(f) ==
    /\ UNCHANGED midi
    /\ IF load_error(f) \notin {"", "AttributeError"}
       THEN /\ op' = [name |-> "load_from_file", file |-> f, result |-> FALSE]
            /\ UNCHANGED <<notes, recorded_events, chord_detection_enabled>>
       ELSE IF load_error(f) = "AttributeError"
       THEN /\ op' = [name |-> "load_from_file", file |-> f, result |-> FALSE]
            /\ notes' = <<>>
            /\ UNCHANGED <<recorded_events, chord_detection_enabled>>
       ELSE /\ op' = [name |-> "load_from_file", file |-> f, result |-> TRUE]
            /\ load_from_file(f.json)
    /\ UNCHANGED <<is_recording, recording_start_time, pending_notes,
                   last_note_time, now>>

\* load_from_file(filepath) where the path holds the file f: False without
\* any assignment when the try block fails, else the three assignments and
\* True
load_from_path(f) ==
    /\ UNCHANGED midi
    /\ IF load_error(f) # ""
       THEN /\ op' = [name |-> "load_from_file", file |-> f, result |-> FALSE]
            /\ UNCHANGED <<notes, recorded_events, chord_detection_enabled>>
       ELSE /\ op' = [name |-> "load_from_file", file |-> f, result |-> TRUE]
            /\ load_from_file(f.json)
    /\ UNCHANGED <<is_recording, recording_start_time, pending_notes,
                   last_note_time, now>>

\* ------------------------------------------------------------------------
\* note_recorder.py: get_notes_as_text and get_notes_sequence
\* ------------------------------------------------------------------------
\* one decimal digit
digit(d) == ToString(d)

\* f"{relative_time:.2f}s" for a time of `ticks` ticks of 0.05 s, not negative
time_str(ticks) ==
    LET hundredths == ticks * 5
    IN  ToString(hundredths \div 100) \o "." \o digit((hundredths % 100) \div 10)
           \o digit(hundredths % 10) \o "s"

_get_inversion_name(inversion) ==
    IF inversion = 0 THEN "root position"
    ELSE IF inversion = 1 THEN "1st inversion"
    ELSE IF inversion = 2 THEN "2nd inversion"
    ELSE IF inversion = 3 THEN "3rd inversion"
    ELSE ToString(inversion) \o "th inversion"

\* the line of event number i in the display with chord detection
event_line(i, event) ==
    LET event_time == time_str(event_time_of(event))
        event_type == IF "type" \in DOMAIN event THEN event.type ELSE "note"
        display_name == IF "display_name" \in DOMAIN event THEN event.display_name ELSE ""
        inversion == IF "inversion" \in DOMAIN event THEN event.inversion ELSE 0
        inv_str == IF inversion > 0
                   THEN " (" \o _get_inversion_name(inversion) \o ")" ELSE ""
    IN  IF event_type = "chord"
        THEN ToString(i) \o ". [Chord: " \o display_name \o "]" \o inv_str
                \o " (" \o event_time \o ")"
        ELSE IF event_type = "interval"
        THEN ToString(i) \o ". [Interval: " \o display_name \o "] (" \o event_time \o ")"
        ELSE ToString(i) \o ". " \o display_name \o " (" \o event_time \o ")"

\* the line of raw note number i in the display without chord detection
note_line(i, note) ==
    ToString(i) \o ". " \o note.note_name \o " (" \o time_str(note.relative_time)
       \o ", vel:" \o ToString(note.velocity) \o ")"

\* the events shown whenever there are any, whatever the setting
shows_events_always == recorded_events # <<>>

\* if self.chord_detection_enabled and self.recorded_events
shows_events == chord_detection_enabled /\ recorded_events # <<>>

\* the list `lines` of get_notes_as_text; no line when there are no notes
text_lines ==
    IF notes = <<>> THEN <<>>
    ELSE IF shows_events
    THEN [i \in 1..Len(recorded_events) |-> event_line(i, recorded_events[i])]
    ELSE [i \in 1..Len(notes) |-> note_line(i, notes[i])]

get_notes_as_text ==
    IF notes = <<>> THEN "No notes recorded" ELSE join("\n", text_lines)

\* every event in brackets
sequence_item_bracketed(event) ==
    "[" \o (IF "display_name" \in DOMAIN event THEN event.display_name ELSE "") \o "]"

\* the item of one event in the sequence with chord detection
sequence_item(event) ==
    LET display_name == IF "display_name" \in DOMAIN event THEN event.display_name ELSE ""
        event_type == IF "type" \in DOMAIN event THEN event.type ELSE "note"
    IN  IF event_type = "chord" THEN "[" \o display_name \o "]" ELSE display_name

\* the list joined by get_notes_sequence; no item when there are no notes
sequence_items ==
    IF notes = <<>> THEN <<>>
    ELSE IF shows_events
    THEN [i \in 1..Len(recorded_events) |-> sequence_item(recorded_events[i])]
    ELSE [i \in 1..Len(notes) |-> notes[i].note_name]

get_notes_sequence ==
    IF notes = <<>> THEN "" ELSE join(" → ", sequence_items)

\* ------------------------------------------------------------------------
\* midi_handler.py: MIDIHandler, and the two callbacks ui.py gives it
\* ------------------------------------------------------------------------
\* return self.input_port is not None
is_connected == input_port # NoPort

\* return self.connected_device
get_connected_device == connected_device

\* the port disconnect() calls close() on: `if self.input_port:` (None when
\* there is none)
closed_by_disconnect == IF input_port # NoPort THEN input_port ELSE NoPort

\* a disconnect that forgets the port and keeps the device name
disconnect_keeps_name ==
    /\ ~polling
    /\ IF input_port # NoPort
       THEN /\ input_port' = NoPort
            /\ port_messages' = <<>>
            /\ UNCHANGED connected_device
       ELSE UNCHANGED <<input_port, connected_device, port_messages>>
    /\ op' = [name |-> "disconnect", closed |-> closed_by_disconnect]
    /\ UNCHANGED <<recorder, now, note_on_callback, note_off_callback, polling>>

\* disconnect(): close() may raise or not, the finally clause sets both
\* fields to None; the messages waiting in the port go with it
disconnect ==
    /\ ~polling
    /\ IF input_port # NoPort
       THEN /\ input_port' = NoPort
            /\ connected_device' = NoPort
            /\ port_messages' = <<>>
       ELSE UNCHANGED <<input_port, connected_device, port_messages>>
    /\ op' = [name |-> "disconnect", closed |-> closed_by_disconnect]
    /\ UNCHANGED <<recorder, now, note_on_callback, note_off_callback, polling>>

\* connect(device_name): disconnect(), then mido.open_input, which opens the
\* port (opens) or raises; True with both fields set, or False with both
\* fields None
connect(device_name, opens) ==
    /\ ~polling
    /\ input_port' = IF opens THEN device_name ELSE NoPort
    /\ connected_device' = IF opens THEN device_name ELSE NoPort
    /\ port_messages' = <<>>
    /\ op' = [name |-> "connect", device_name |-> device_name, result |-> opens,
              closed |-> closed_by_disconnect]
    /\ UNCHANGED <<recorder, now, note_on_callback, note_off_callback, polling>>

\* ui.py setup_midi_callbacks: set_note_on_callback(self.on_note_on) and
\* set_note_off_callback(self.on_note_off), once when the window is built
setup_midi_callbacks ==
    /\ ~polling
    /\ note_on_callback = NoPort
    /\ note_on_callback' = "on_note_on"
    /\ note_off_callback' = "on_note_off"
    /\ op' = [name |-> "setup_midi_callbacks"]
    /\ UNCHANGED <<recorder, now, input_port, connected_device, port_messages,
                   polling>>

\* ui.py on_note_on: the key is shown pressed and the note handed to add_note
on_note_on(note_name, midi_number, velocity) ==
    add_note(note_name, midi_number, velocity)

\* ui.py on_note_off: the key is shown released
on_note_off(note_name, midi_number) ==
    /\ op' = [name |-> "on_note_off", midi_number |-> midi_number]
    /\ UNCHANGED <<recorder, now>>

\* a message that reaches no callback
no_callback ==
    /\ op' = [name |-> "poll_messages"]
    /\ UNCHANGED <<recorder, now>>

\* the test that makes a message a pressed key
is_note_pressed_any_velocity(msg) == msg.type = "note_on"

\* msg.type == 'note_on' and msg.velocity > 0
is_note_pressed(msg) == msg.type = "note_on" /\ msg.velocity > 0

\* msg.type == 'note_off' or (msg.type == 'note_on' and msg.velocity == 0)
is_note_released(msg) ==
    msg.type = "note_off" \/ (msg.type = "note_on" /\ msg.velocity = 0)

\* the body of the loop of poll_messages for the message msg
dispatch(msg) ==
    IF is_note_pressed(msg)
    THEN IF note_on_callback # NoPort
         THEN on_note_on(midi_to_note(msg.note), msg.note, msg.velocity)
         ELSE no_callback
    ELSE IF is_note_released(msg)
    THEN IF note_off_callback # NoPort
         THEN on_note_off(midi_to_note(msg.note), msg.note)
         ELSE no_callback
    ELSE no_callback

\* poll_messages(): returns at once without a port; else the loop over
\* iter_pending() starts and hands out the first waiting message, if any
poll_messages ==
    /\ ~polling
    /\ IF input_port = NoPort \/ port_messages = <<>>
       THEN /\ no_callback
            /\ UNCHANGED <<port_messages, polling>>
       ELSE /\ dispatch(Head(port_messages))
            /\ port_messages' = Tail(port_messages)
            /\ polling' = (Tail(port_messages) # <<>>)
    /\ UNCHANGED <<input_port, note_on_callback, note_off_callback,
                   connected_device>>

\* the next turn of the loop of poll_messages; the loop ends with the last
\* waiting message
poll_next ==
    /\ polling
    /\ dispatch(Head(port_messages))
    /\ port_messages' = Tail(port_messages)
    /\ polling' = (Tail(port_messages) # <<>>)
    /\ UNCHANGED <<input_port, note_on_callback, note_off_callback,
                   connected_device>>

\* ------------------------------------------------------------------------
\* The recorder driven through its public calls in any order
\* ------------------------------------------------------------------------
\* the device delivers one note-on: the UI hands it to add_note
NoteOn ==
    \E m \in Pitches, v \in Velocities :
        /\ Len(notes) < MaxNotes
        /\ add_note(midi_to_note(m), m, v)
        /\ UNCHANGED midi

SetDetection == \E enabled \in BOOLEAN : set_chord_detection(enabled)

Next ==
    \/ Tick
    \/ start_recording
    \/ stop_recording
    \/ clear_recording
    \/ SetDetection
    \/ NoteOn

Spec == Init /\ [][Next]_vars

\* ------------------------------------------------------------------------
\* The recorder driven through start_recording, add_note, stop_recording and
\* set_chord_detection in any order, never cleared
\* ------------------------------------------------------------------------
NextNoClear ==
    \/ Tick
    \/ start_recording
    \/ stop_recording
    \/ SetDetection
    \/ NoteOn

SpecNoClear == Init /\ [][NextNoClear]_vars

\* ------------------------------------------------------------------------
\* One recording session on a new recorder: the chord detection is chosen,
\* then start_recording, notes, stop_recording (test_integration.py)
\* ------------------------------------------------------------------------
BeforeSession == ~is_recording /\ op.name # "stop_recording"

SessionTick == op.name # "stop_recording" /\ Tick

SessionSetDetection == BeforeSession /\ SetDetection

SessionStart == BeforeSession /\ start_recording

SessionNoteOn ==
    \E m \in SessionPitches, v \in Velocities :
        /\ is_recording
        /\ Len(notes) < MaxSessionNotes
        /\ add_note(midi_to_note(m), m, v)
        /\ UNCHANGED midi

SessionStop == is_recording /\ stop_recording

NextSession ==
    \/ SessionTick
    \/ SessionSetDetection
    \/ SessionStart
    \/ SessionNoteOn
    \/ SessionStop

SpecSession == Init /\ [][NextSession]_vars

\* ------------------------------------------------------------------------
\* One recording started when the recorder is constructed, at clock 1:
\* start_recording, then notes, clock ticks, set_chord_detection,
\* clear_recording, stop_recording
\* ------------------------------------------------------------------------
Started == op.name # "init"

OneStart == ~Started /\ start_recording

OneTick == Started /\ Tick

OneNoteOn == Started /\ NoteOn

OneSetDetection == Started /\ SetDetection

OneClear == Started /\ clear_recording

OneStop == Started /\ stop_recording

NextOneStart ==
    \/ OneStart
    \/ OneTick
    \/ OneNoteOn
    \/ OneSetDetection
    \/ OneClear
    \/ OneStop

SpecOneStart == Init /\ [][NextOneStart]_vars

\* ------------------------------------------------------------------------
\* The detector called on a list of notes (test_chord_detector.py): op holds
\* the list, and after the call the name of the method and its result
\* ------------------------------------------------------------------------
\* the note dictionaries of _create_notes, for the MIDI numbers of the notes
_create_notes(midi_numbers) ==
    [i \in 1..Len(midi_numbers) |->
        [note_name |-> midi_to_note(midi_numbers[i]),
         midi_number |-> midi_numbers[i],
         velocity |-> 80,
         timestamp |-> 1,
         relative_time |-> 0]]

\* the pitch classes of template k seen from its note number r (from 0)
RotatedSet(k, r) ==
    LET T == CHORD_PATTERNS[k].pattern
    IN  {(T[i] - T[r + 1]) % 12 : i \in 1..Len(T)}

\* template k with its note number r as the lowest note `bass`, in close
\* position and ascending
Voicing(k, r, bass) ==
    LET up == sorted(RotatedSet(k, r))
    IN  [i \in 1..Len(up) |-> bass + up[i]]

\* template k as declared, over the root `bass` (9ths, 11ths, 13ths above
\* the octave)
RawVoicing(k, bass) ==
    LET T == CHORD_PATTERNS[k].pattern
    IN  [i \in 1..Len(T) |-> bass + T[i]]

Templates == 1..Len(CHORD_PATTERNS)

Rotations(k) == 0..(Len(CHORD_PATTERNS[k].pattern) - 1)

\* the lists of MIDI numbers handed to the detector
Clusters ==
    UNION { {Voicing(k, r, b) : r \in Rotations(k), b \in Basses}
            \cup {RawVoicing(k, b) : b \in Basses} : k \in Templates }
    \cup UNION {[1..n -> FreePitches] : n \in 0..MaxClusterLen}

InitDetector ==
    /\ MIDIHandler_init
    /\ notes = <<>>
    /\ is_recording = FALSE
    /\ recording_start_time = None
    /\ chord_detection_enabled = TRUE
    /\ pending_notes = <<>>
    /\ last_note_time = None
    /\ recorded_events = <<>>
    /\ now = 1
    /\ \E c \in Clusters : op = [name |-> "_create_notes", notes |-> _create_notes(c)]

CallDetectChord ==
    /\ UNCHANGED midi
    /\ op.name = "_create_notes"
    /\ op' = [name |-> "detect_chord", notes |-> op.notes,
              result |-> detect_chord(op.notes)]
    /\ UNCHANGED <<recorder, now>>

CallClassifyNotes ==
    /\ UNCHANGED midi
    /\ op.name = "_create_notes"
    /\ op' = [name |-> "classify_notes", notes |-> op.notes,
              result |-> classify_notes(op.notes)]
    /\ UNCHANGED <<recorder, now>>

\* the note list with every note moved by `shift` semitones
Transposed(midi_numbers, shift) ==
    [i \in 1..Len(midi_numbers) |-> midi_numbers[i] + shift]

\* the note list with its note number j alone moved by `shift` semitones
OneMoved(midi_numbers, j, shift) ==
    [i \in 1..Len(midi_numbers) |->
        IF i = j THEN midi_numbers[i] + shift ELSE midi_numbers[i]]

\* the octave variants of a note list: all notes moved by one octave, or one
\* note that is not the only lowest one moved by one octave and staying at
\* or above the lowest; all within 0..127
OctaveVariants(midi_numbers) ==
    LET low == CHOOSE m \in {midi_numbers[i] : i \in 1..Len(midi_numbers)} :
                   \A i \in 1..Len(midi_numbers) : m <= midi_numbers[i]
        inRange(c) == \A i \in 1..Len(c) : c[i] \in 0..127
        whole == {Transposed(midi_numbers, shift) : shift \in {0 - 12, 12}}
        single == {OneMoved(midi_numbers, j, shift) :
                      j \in {i \in 1..Len(midi_numbers) :
                                \E i2 \in 1..Len(midi_numbers) :
                                    i2 # i /\ midi_numbers[i2] = low},
                      shift \in {0 - 12, 12}}
    IN  IF midi_numbers = <<>> THEN {}
        ELSE {c \in whole : inRange(c)}
             \cup {c \in single : inRange(c) /\ \A i \in 1..Len(c) : c[i] >= low}

\* test_chord_different_octaves: detect_chord on a note list and on an
\* octave variant of it
CallDetectChordOctaves ==
    /\ UNCHANGED midi
    /\ op.name = "_create_notes"
    /\ \E c \in OctaveVariants([i \in 1..Len(op.notes) |-> op.notes[i].midi_number]) :
          op' = [name |-> "detect_chord_octaves",
                 notes |-> op.notes,
                 result |-> detect_chord(op.notes),
                 notes2 |-> _create_notes(c),
                 result2 |-> detect_chord(_create_notes(c))]
    /\ UNCHANGED <<recorder, now>>

NextDetector ==
    \/ CallDetectChord
    \/ CallClassifyNotes
    \/ CallDetectChordOctaves

SpecDetector == InitDetector /\ [][NextDetector]_vars

\* ------------------------------------------------------------------------
\* normalize_intervals called on a list of offsets, and once more on its
\* own result
\* ------------------------------------------------------------------------
OffsetLists == UNION {[1..n -> Offsets] : n \in 0..MaxOffsets}

InitNormalize ==
    /\ MIDIHandler_init
    /\ notes = <<>>
    /\ is_recording = FALSE
    /\ recording_start_time = None
    /\ chord_detection_enabled = TRUE
    /\ pending_notes = <<>>
    /\ last_note_time = None
    /\ recorded_events = <<>>
    /\ now = 1
    /\ \E x \in OffsetLists : op = [name |-> "intervals", intervals |-> x]

CallNormalize ==
    /\ UNCHANGED midi
    /\ op.name = "intervals"
    /\ op' = [name |-> "normalize_intervals", intervals |-> op.intervals,
              result |-> normalize_intervals(op.intervals)]
    /\ UNCHANGED <<recorder, now>>

CallNormalizeAgain ==
    /\ UNCHANGED midi
    /\ op.name = "normalize_intervals"
    /\ op' = [name |-> "normalize_twice", intervals |-> op.intervals,
              result |-> op.result,
              again |-> normalize_intervals(op.result)]
    /\ UNCHANGED <<recorder, now>>

NextNormalize ==
    \/ CallNormalize
    \/ CallNormalizeAgain

SpecNormalize == InitNormalize /\ [][NextNormalize]_vars

\* ------------------------------------------------------------------------
\* detect_sections called on a stopped recording made without chord
\* detection: start_recording at clock 1, one event per note
\* ------------------------------------------------------------------------
\* the lists of onsets in the order of time
OnsetLists ==
    {x \in UNION {[1..n -> OnsetTimes] : n \in 0..MaxSectionEvents} :
        \A i \in 1..(Len(x) - 1) : x[i] <= x[i + 1]}

\* the raw-note log of C4 played at the onsets, recording started at clock 1
NotesAt(onsets) ==
    [i \in 1..Len(onsets) |->
        [note_name |-> "C4", midi_number |-> 60, velocity |-> 80,
         timestamp |-> 1 + onsets[i], relative_time |-> onsets[i]]]

InitSections ==
    \E onsets \in OnsetLists :
        /\ MIDIHandler_init
        /\ notes = NotesAt(onsets)
        /\ recorded_events = [i \in 1..Len(onsets) |-> single_note_event(NotesAt(onsets)[i])]
        /\ is_recording = FALSE
        /\ recording_start_time = 1
        /\ chord_detection_enabled = FALSE
        /\ pending_notes = <<>>
        /\ last_note_time = None
        /\ now = IF onsets = <<>> THEN 1 ELSE 1 + onsets[Len(onsets)]
        /\ op = [name |-> "stop_recording"]

CallDetectSections ==
    /\ UNCHANGED midi
    /\ op.name = "stop_recording"
    /\ \E pause_threshold \in PauseThresholds :
          op' = [name |-> "detect_sections", pause_threshold |-> pause_threshold,
                 result |-> detect_sections(pause_threshold)]
    /\ UNCHANGED <<recorder, now>>

NextSections == CallDetectSections

SpecSections == InitSections /\ [][NextSections]_vars

\* ------------------------------------------------------------------------
\* A recording saved and loaded again (ui.py save_recording and
\* load_recording): one start_recording, notes, ticks, set_chord_detection,
\* stop_recording, then save_to_file, then load_from_file into the same
\* recorder or into a newly constructed one
\* ------------------------------------------------------------------------
BeforeSave == op.name \notin {"save_to_file", "load_from_file"}

SaveLoadStart == ~Started /\ start_recording

SaveLoadTick == Started /\ BeforeSave /\ Tick

SaveLoadNoteOn == Started /\ BeforeSave /\ NoteOn

SaveLoadSetDetection == Started /\ BeforeSave /\ SetDetection

SaveLoadStop == Started /\ BeforeSave /\ is_recording /\ stop_recording

Save == BeforeSave /\ save_to_file

\* load_from_file of the file just saved, by the recorder that saved it
LoadSame ==
    /\ UNCHANGED midi
    /\ op.name = "save_to_file"
    /\ load_from_file(op.file)
    /\ op' = [name |-> "load_from_file", result |-> TRUE, saved |-> op.saved]
    /\ UNCHANGED <<is_recording, recording_start_time, pending_notes,
                   last_note_time, now>>

\* load_from_file of the file just saved, by a recorder fresh from __init__
LoadNew ==
    /\ UNCHANGED midi
    /\ op.name = "save_to_file"
    /\ load_from_file(op.file)
    /\ is_recording' = FALSE
    /\ recording_start_time' = None
    /\ pending_notes' = <<>>
    /\ last_note_time' = None
    /\ op' = [name |-> "load_from_file", result |-> TRUE, saved |-> op.saved]
    /\ UNCHANGED now

NextSaveLoad ==
    \/ SaveLoadStart
    \/ SaveLoadTick
    \/ SaveLoadNoteOn
    \/ SaveLoadSetDetection
    \/ SaveLoadStop
    \/ Save
    \/ LoadSame
    \/ LoadNew

SpecSaveLoad == Init /\ [][NextSaveLoad]_vars

\* ------------------------------------------------------------------------
\* The recorder driven through its public calls and load_from_file in any
\* order (ui.py: the record, clear and load buttons and the MIDI callback)
\* ------------------------------------------------------------------------
Load == \E f \in Files : load_from_path(f)

\* one note-on while the logs and the pending cluster are short
LoadNoteOn ==
    \E m \in LoadPitches, v \in Velocities :
        /\ Len(notes) < MaxLoadNotes
        /\ Len(recorded_events) < MaxLoadNotes
        /\ Len(pending_notes) < MaxLoadNotes
        /\ add_note(midi_to_note(m), m, v)
        /\ UNCHANGED midi

NextLoad ==
    \/ Tick
    \/ start_recording
    \/ stop_recording
    \/ clear_recording
    \/ SetDetection
    \/ LoadNoteOn
    \/ Load

SpecLoad == Init /\ [][NextLoad]_vars

\* ------------------------------------------------------------------------
\* The MIDI handler of the application (ui.py MainWindow): devices are
\* connected and disconnected, the device sends messages, the timer polls,
\* the record button starts and stops the recorder
\* ------------------------------------------------------------------------
\* the device sends a message into the open port
MidiMessage ==
    \E msg \in MidiMessages :
        /\ is_connected
        /\ Len(port_messages) < MaxPortMessages
        /\ Len(notes) < MaxMidiNotes
        /\ port_messages' = Append(port_messages, msg)
        /\ op' = [name |-> "message"]
        /\ UNCHANGED <<recorder, now, input_port, note_on_callback,
                       note_off_callback, connected_device, polling>>

Connect == \E device_name \in Devices, opens \in BOOLEAN : connect(device_name, opens)

MidiStart == ~polling /\ start_recording

MidiStop == ~polling /\ stop_recording

NextMidi ==
    \/ Tick
    \/ setup_midi_callbacks
    \/ Connect
    \/ disconnect
    \/ MidiMessage
    \/ poll_messages
    \/ poll_next
    \/ MidiStart
    \/ MidiStop

SpecMidi == Init /\ [][NextMidi]_vars

\* ------------------------------------------------------------------------
\* The display of a recording (ui.py update_notes_display and
\* test_recorder_display_with_chords): one start_recording, notes, ticks,
\* set_chord_detection, stop_recording, then one of the two views
\* ------------------------------------------------------------------------
Viewing == op.name \in {"get_notes_as_text", "get_notes_sequence"}

ViewStart == ~Started /\ start_recording

ViewTick == Started /\ ~Viewing /\ Tick

ViewNoteOn ==
    \E m \in ViewPitches, v \in Velocities :
        /\ ~Viewing
        /\ is_recording
        /\ Len(notes) < MaxViewNotes
        /\ add_note(midi_to_note(m), m, v)
        /\ UNCHANGED midi

ViewSetDetection == Started /\ ~Viewing /\ SetDetection

ViewStop == ~Viewing /\ is_recording /\ stop_recording

CallTextView ==
    /\ UNCHANGED midi
    /\ ~Viewing
    /\ op' = [name |-> "get_notes_as_text", lines |-> text_lines,
              result |-> get_notes_as_text]
    /\ UNCHANGED <<recorder, now>>

CallSequenceView ==
    /\ UNCHANGED midi
    /\ ~Viewing
    /\ op' = [name |-> "get_notes_sequence", items |-> sequence_items,
              result |-> get_notes_sequence]
    /\ UNCHANGED <<recorder, now>>

NextViews ==
    \/ ViewStart
    \/ ViewTick
    \/ ViewNoteOn
    \/ ViewSetDetection
    \/ ViewStop
    \/ CallTextView
    \/ CallSequenceView

SpecViews == Init /\ [][NextViews]_vars

\* ------------------------------------------------------------------------
\* Helpers of the properties
\* ------------------------------------------------------------------------
Last(s) == s[Len(s)]

\* the positions of the raw-note log that follow a gap longer than the window
Breaks(ns) ==
    {i \in 2..Len(ns) : ns[i].timestamp - ns[i - 1].timestamp > chord_time_window}

\* the first position of the j-th maximal run of notes without such a gap
RunStart(ns, j) ==
    CHOOSE i \in {1} \cup Breaks(ns) :
        Cardinality({b \in Breaks(ns) : b <= i}) = j - 1

\* the j-th maximal run
Run(ns, j) ==
    LET first == RunStart(ns, j)
        last == IF j = 1 + Cardinality(Breaks(ns)) THEN Len(ns)
                ELSE RunStart(ns, j + 1) - 1
    IN  SubSeq(ns, first, last)

midi_numbers_of(ns) == [i \in 1..Len(ns) |-> ns[i].midi_number]

\* the log s grew by exactly one entry at its end
GrewByOne(s, t) == Len(t) = Len(s) + 1 /\ SubSeq(t, 1, Len(s)) = s

\* ------------------------------------------------------------------------
\* Properties
\* ------------------------------------------------------------------------
\* C1: after start(); ingest(n1..nk), k >= 1, with chord detection enabled
\* throughout; stop(), the event log holds 1 + (number of onset gaps longer
\* than the window) events, the j-th event holding the names of the j-th
\* maximal run of notes; C4, E4, G4 within the window and A4 after it give a
\* C maj chord and then the single note A4.
C1_SessionEvents ==
    (op.name = "stop_recording" /\ chord_detection_enabled /\ notes # <<>>) =>
        /\ Len(recorded_events) = 1 + Cardinality(Breaks(notes))
        /\ \A j \in 1..Len(recorded_events) :
              recorded_events[j].notes = note_names(Run(notes, j))
        /\ (/\ midi_numbers_of(notes) = <<60, 64, 67, 69>>
            /\ Breaks(notes) = {4})
           => /\ Len(recorded_events) = 2
              /\ recorded_events[1].type = "chord"
              /\ recorded_events[1].root = "C"
              /\ recorded_events[1].quality = "maj"
              /\ recorded_events[1].display_name = "C maj"
              /\ recorded_events[2].type = "note"
              /\ recorded_events[2].display_name = "A4"

C1_Witness ==
    /\ op.name = "stop_recording"
    /\ chord_detection_enabled
    /\ midi_numbers_of(notes) = <<60, 64, 67, 69>>
    /\ Breaks(notes) = {4}
    /\ Len(recorded_events) = 2
    /\ recorded_events[1].type = "chord"

\* C2: in every reachable state the events of the event log are in the
\* order of the first onset of their clusters.
C2_EventOrder ==
    \A i, j \in 1..Len(recorded_events) :
        i < j => recorded_events[i].timestamp <= recorded_events[j].timestamp

\* C3: an ingest while recording with chord detection disabled appends one
\* event of type note for that note to the event log and leaves the pending
\* cluster alone.
C3_DisabledBypass ==
    [][(op'.name = "add_note" /\ is_recording /\ ~chord_detection_enabled) =>
          /\ GrewByOne(recorded_events, recorded_events')
          /\ Last(recorded_events').type = "note"
          /\ Last(recorded_events').notes = <<midi_to_note(op'.midi_number)>>
          /\ Last(recorded_events').display_name = midi_to_note(op'.midi_number)
          /\ Last(recorded_events').timestamp = now
          /\ pending_notes' = pending_notes]_vars

C3_Witness ==
    /\ op.name = "add_note"
    /\ is_recording
    /\ ~chord_detection_enabled
    /\ Len(notes) = 3
    /\ \A i \in 1..3 : notes[i].timestamp = notes[1].timestamp
    /\ pending_notes = <<>>
    /\ Len(recorded_events) = 3
    /\ \A i \in 1..3 : /\ recorded_events[i].type = "note"
                       /\ recorded_events[i].notes = <<notes[i].note_name>>

\* C4: an ingest while recording with chord detection enabled flushes the
\* pending cluster before adding the note if and only if the cluster is not
\* empty and now minus the onset of its last note is strictly greater than
\* the window; otherwise the note joins the cluster.
C4_FlushIffGapExceedsWindow ==
    [][(op'.name = "add_note" /\ is_recording /\ chord_detection_enabled) =>
          LET expired == /\ pending_notes # <<>>
                         /\ now - Last(pending_notes).timestamp > chord_time_window
          IN  /\ expired =>
                    /\ GrewByOne(recorded_events, recorded_events')
                    /\ Last(recorded_events').notes = note_names(pending_notes)
                    /\ Len(pending_notes') = 1
              /\ ~expired =>
                    /\ recorded_events' = recorded_events
                    /\ GrewByOne(pending_notes, pending_notes')
              /\ Last(pending_notes').midi_number = op'.midi_number
              /\ Last(pending_notes').timestamp = now]_vars

\* a cluster of three notes whose gaps equal the window and which spans two
\* windows
C4_Witness ==
    /\ op.name = "add_note"
    /\ chord_detection_enabled
    /\ Len(pending_notes) = 3
    /\ pending_notes[2].timestamp - pending_notes[1].timestamp = chord_time_window
    /\ pending_notes[3].timestamp - pending_notes[2].timestamp = chord_time_window
    /\ pending_notes[3].timestamp - pending_notes[1].timestamp > chord_time_window

\* C5: stop() while recording appends one event for the pending cluster if
\* it is not empty, whatever time has passed, and otherwise leaves the event
\* log unchanged; afterwards the pending cluster is empty and the recorder
\* is idle.
C5_StopForcesFlush ==
    [][(op'.name = "stop_recording" /\ is_recording) =>
          /\ IF pending_notes # <<>>
             THEN /\ GrewByOne(recorded_events, recorded_events')
                  /\ Last(recorded_events').notes = note_names(pending_notes)
             ELSE recorded_events' = recorded_events
          /\ pending_notes' = <<>>
          /\ ~is_recording']_vars

\* stopped in the tick of the last note: its cluster is in the event log
C5_Witness ==
    /\ op.name = "stop_recording"
    /\ notes # <<>>
    /\ Last(notes).timestamp = now
    /\ recorded_events # <<>>
    /\ Last(recorded_events).timestamp = now
    /\ Len(Last(recorded_events).notes) >= 2
    /\ pending_notes = <<>>
    /\ ~is_recording

\* C6: an ingest while not recording changes nothing of the recorder.
C6_IdleIngestNoOp ==
    [][(op'.name = "add_note" /\ ~is_recording) => UNCHANGED recorder]_vars

C6_Witness ==
    /\ op.name = "add_note"
    /\ ~is_recording
    /\ ~chord_detection_enabled
    /\ notes # <<>>

\* C7: an ingest while recording appends one entry for that note at the end
\* of the raw-note log, with chord detection enabled or disabled and with or
\* without a flush.
C7_RawLogAppend ==
    [][(op'.name = "add_note" /\ is_recording) =>
          /\ GrewByOne(notes, notes')
          /\ Last(notes').midi_number = op'.midi_number
          /\ Last(notes').note_name = midi_to_note(op'.midi_number)
          /\ Last(notes').timestamp = now]_vars

\* the raw log holds a clustered note, a flushed note and a note taken with
\* chord detection disabled
C7_Witness ==
    /\ op.name = "add_note"
    /\ is_recording
    /\ ~chord_detection_enabled
    /\ Len(notes) = 3
    /\ Len(pending_notes) = 1
    /\ Len(recorded_events) = 2

\* C8: after clear(), in any state, the raw-note log, the event log and the
\* pending cluster are empty and the start time is unset.
C8_ClearWipes ==
    op.name = "clear_recording" =>
        /\ notes = <<>>
        /\ recorded_events = <<>>
        /\ pending_notes = <<>>
        /\ recording_start_time = None

C8_Witness ==
    /\ op.name = "clear_recording"
    /\ is_recording
    /\ notes = <<>>
    /\ pending_notes = <<>>

\* C9: start(), in any state, leaves the recorder recording with an empty
\* pending cluster and the start time set to the current time, and changes
\* neither the raw-note log nor the event log.
C9_StartEffect ==
    [][op'.name = "start_recording" =>
          /\ is_recording'
          /\ pending_notes' = <<>>
          /\ recording_start_time' = now
          /\ UNCHANGED <<notes, recorded_events>>]_vars

\* a second start, with notes and events of the first recording in the logs
C9_Witness ==
    /\ op.name = "start_recording"
    /\ is_recording
    /\ notes # <<>>
    /\ recorded_events # <<>>
    /\ recording_start_time > notes[1].timestamp

\* C10: the passage of time changes neither the event log nor the pending
\* cluster, and the event log changes only in an ingest, a stop or a clear:
\* only an ingest or a stop appends an event.
C10_NoTimedFlush ==
    [][/\ op'.name = "tick" => UNCHANGED <<recorded_events, pending_notes>>
       /\ recorded_events' # recorded_events =>
             op'.name \in {"add_note", "stop_recording", "clear_recording"}
       /\ Len(recorded_events') > Len(recorded_events) =>
             op'.name \in {"add_note", "stop_recording"}]_vars

\* a pending cluster older than the window that is still not flushed
C10_Witness ==
    /\ op.name = "tick"
    /\ is_recording
    /\ chord_detection_enabled
    /\ pending_notes # <<>>
    /\ now - Last(pending_notes).timestamp > chord_time_window

\* C11: every note of the raw-note log holds as relative_time its timestamp
\* minus the start time set by the most recent start(); here the only
\* start() is the one at clock 1.
C11_RelativeTime ==
    \A i \in 1..Len(notes) : notes[i].relative_time = notes[i].timestamp - 1

\* the number of the template called `quality`
IndexOf(quality) == CHOOSE k \in Templates : CHORD_PATTERNS[k].quality = quality

\* the lowest MIDI number of a note list
LowestMidi(ns) ==
    CHOOSE m \in {ns[i].midi_number : i \in 1..Len(ns)} :
        \A i \in 1..Len(ns) : m <= ns[i].midi_number

\* the pitch classes of a note list seen from its lowest note
ClusterIntervals(ns) == {(ns[i].midi_number - LowestMidi(ns)) % 12 : i \in 1..Len(ns)}

\* the name of pitch class pc
PitchClassName(pc) == NOTE_NAMES[(pc % 12) + 1]

\* detect_chord was called on the note list made from `midi_numbers`
Detected(midi_numbers) ==
    op.name = "detect_chord" /\ op.notes = _create_notes(midi_numbers)

PitchClassOf(name) == (CHOOSE i \in 1..12 : NOTE_NAMES[i] = name) - 1

\* the result names template k2 at rotation r2, and its root put under that
\* rotation gives back the bass b
ResultIs(k2, r2, b) ==
    /\ op.result # NoMatch
    /\ op.result.quality = CHORD_PATTERNS[k2].quality
    /\ op.result.inversion = r2
    /\ (PitchClassOf(op.result.root) + CHORD_PATTERNS[k2].pattern[r2 + 1]) % 12 = b % 12

\* (k2, r2) is tried before (k, r): all root positions in declaration
\* order, then the inversions in declaration order, rotations ascending
TriedBefore(k2, r2, k, r) ==
    \/ r2 = 0 /\ (r > 0 \/ k2 < k)
    \/ r2 > 0 /\ r > 0 /\ (k2 < k \/ (k2 = k /\ r2 < r))

\* another (template, rotation) with the interval set of (k, r) is tried first
Shadowed(k, r) ==
    \E k2 \in Templates : \E r2 \in Rotations(k2) :
        TriedBefore(k2, r2, k, r) /\ RotatedSet(k2, r2) = RotatedSet(k, r)

\* C13 as stated: every rotation r of every template T over every bass is
\* detected as T with inversion r and a root that reproduces the bass.
C13_EveryRotation ==
    \A k \in Templates : \A r \in Rotations(k) : \A b \in Basses :
        Detected(Voicing(k, r, b)) => ResultIs(k, r, b)

\* C13: every rotation r of every template T over every bass is detected as
\* some template and inversion with the same interval set and a root that
\* reproduces the bass; it is T with inversion r unless a root position or an
\* earlier-tried inversion has the same interval set.
C13_RotationUnlessShadowed ==
    \A k \in Templates : \A r \in Rotations(k) : \A b \in Basses :
        Detected(Voicing(k, r, b)) =>
            /\ \E k2 \in Templates : \E r2 \in Rotations(k2) :
                  RotatedSet(k2, r2) = RotatedSet(k, r) /\ ResultIs(k2, r2, b)
            /\ ~Shadowed(k, r) => ResultIs(k, r, b)

C13_Witness ==
    /\ Detected(Voicing(IndexOf("min7"), 3, 55))
    /\ ~Shadowed(IndexOf("min7"), 3)
    /\ op.result.quality = "min7"
    /\ op.result.inversion = 3
    /\ op.result.root = "A"

\* the templates whose root position is the interval set S
RootTemplates(S) == {k \in Templates : RotatedSet(k, 0) = S}

\* the templates of which some inversion is the interval set S
InvertedTemplates(S) ==
    {k \in Templates : \E r \in Rotations(k) : r > 0 /\ RotatedSet(k, r) = S}

\* detect_chord was called on a list of two or more notes
DetectedCluster == op.name = "detect_chord" /\ Len(op.notes) >= 2

\* C14: an interval set that is the root position of a template and also an
\* inversion of a template is detected as the root position: inversion 0,
\* the bass as root, a template whose root position it is; {0,2,7} is sus2 in
\* root position, not sus4 in first inversion.
C14_RootPositionPreferred ==
    DetectedCluster =>
        LET S == ClusterIntervals(op.notes)
        IN  /\ RootTemplates(S) # {} /\ InvertedTemplates(S) # {} =>
                  /\ op.result # NoMatch
                  /\ op.result.inversion = 0
                  /\ op.result.root = PitchClassName(LowestMidi(op.notes))
                  /\ IndexOf(op.result.quality) \in RootTemplates(S)
            /\ S = {0, 2, 7} => op.result.quality = "sus2" /\ op.result.inversion = 0

\* {0,5,7} is sus2 at rotation 2, declared earlier, and sus4 in root position
C14_Witness ==
    /\ Detected(<<60, 65, 67>>)
    /\ IndexOf("sus2") \in InvertedTemplates(ClusterIntervals(op.notes))
    /\ IndexOf("sus4") \in RootTemplates(ClusterIntervals(op.notes))
    /\ op.result.quality = "sus4"
    /\ op.result.inversion = 0
    /\ op.result.root = "C"

\* the result is a major chord on the pitch class `offset` above the lowest
\* note, in an inversion
InvertedMajorAt(offset) ==
    /\ op.result # NoMatch
    /\ op.result.quality = "maj"
    /\ op.result.root = PitchClassName(LowestMidi(op.notes) + offset)
    /\ op.result.inversion > 0

\* C15: over every bass the interval set {0,3,8} is detected as an inverted
\* major chord rooted 8 semitones above the bass and {0,5,9} as one rooted 5
\* above; E4 G4 C5 and G3 C4 E4 are both C maj.
C15_MajorInversions ==
    /\ DetectedCluster =>
          /\ ClusterIntervals(op.notes) = {0, 3, 8} => InvertedMajorAt(8)
          /\ ClusterIntervals(op.notes) = {0, 5, 9} => InvertedMajorAt(5)
    /\ Detected(<<64, 67, 72>>) => op.result.root = "C" /\ op.result.quality = "maj"
    /\ Detected(<<55, 60, 64>>) => op.result.root = "C" /\ op.result.quality = "maj"

\* the fifth in the bass: the last rotation of the major template
C15_Witness ==
    /\ Detected(<<55, 60, 64>>)
    /\ op.result.quality = "maj"
    /\ op.result.root = "C"
    /\ op.result.inversion = Len(CHORD_PATTERNS[IndexOf("maj")].pattern) - 1

\* C16: the template returned is the first-declared one among those that
\* match in the pass that produced the result; {0,5,10}, sus2 at rotation 1
\* and sus4 at rotation 2, is detected as sus2.
C16_DeclarationOrder ==
    DetectedCluster /\ op.result # NoMatch =>
        LET S == ClusterIntervals(op.notes)
            k == IndexOf(op.result.quality)
            samePass == IF op.result.inversion = 0
                        THEN RootTemplates(S) ELSE InvertedTemplates(S)
        IN  /\ k \in samePass
            /\ \A k2 \in samePass : k <= k2
            /\ S = {0, 5, 10} => op.result.quality = "sus2" /\ op.result.inversion = 1

C16_Witness ==
    /\ Detected(<<60, 65, 70>>)
    /\ {IndexOf("sus2"), IndexOf("sus4")} \subseteq InvertedTemplates(ClusterIntervals(op.notes))
    /\ op.result.quality = "sus2"
    /\ op.result.inversion = 1
    /\ op.result.root = "A#"

\* the first-arrived note among those with the lowest MIDI number
LowestNote(ns) ==
    ns[CHOOSE i \in 1..Len(ns) :
          /\ ns[i].midi_number = LowestMidi(ns)
          /\ \A j \in 1..(i - 1) : ns[j].midi_number # LowestMidi(ns)]

\* C17: for a matched cluster the bass pitch name of the result is the name
\* of its lowest note (the first-arrived one on a tie), in every arrival
\* order, and the root is counted from that note.
C17_BassIsLowest ==
    DetectedCluster /\ op.result # NoMatch =>
        /\ op.result.bass_note = LowestNote(op.notes).note_name
        /\ PitchClassOf(op.result.root)
              = (LowestNote(op.notes).midi_number + op.result.root_offset) % 12

\* classify_notes was called on the note list made from `midi_numbers`
Classified(midi_numbers) ==
    op.name = "classify_notes" /\ op.notes = _create_notes(midi_numbers)

\* the fields only a template match puts into a result
MatchFields == {"quality", "inversion", "pattern", "root_offset", "bass_note"}

\* C18: classify_notes of no notes is 'empty' with no member; classify_notes
\* of one note n is 'note' with n's name as display name and only member,
\* and carries nothing of a template match.
C18_EmptyAndSingle ==
    op.name = "classify_notes" =>
        /\ Len(op.notes) = 0 =>
              op.result.type = "empty" /\ op.result.notes = <<>>
        /\ Len(op.notes) = 1 =>
              /\ op.result.type = "note"
              /\ op.result.display_name = op.notes[1].note_name
              /\ op.result.notes = <<op.notes[1].note_name>>
              /\ DOMAIN op.result \cap MatchFields = {}

C18_Witness ==
    /\ Classified(<<60>>)
    /\ op.result.type = "note"
    /\ op.result.display_name = "C4"
    /\ op.result.notes = <<"C4">>

\* no template has the interval set S, at any rotation
NoTemplate(S) == RootTemplates(S) = {} /\ InvertedTemplates(S) = {}

\* the names of a note list in arrival order
ArrivalNames(ns) == [i \in 1..Len(ns) |-> midi_to_note(ns[i].midi_number)]

\* C19: a cluster no template matches gets None from detect_chord and from
\* classify_notes 'interval' when it has 2 notes, 'notes' when it has more,
\* with the member names in arrival order; every classify_notes result is one
\* of the five types.
C19_NoMatchFallback ==
    /\ DetectedCluster /\ NoTemplate(ClusterIntervals(op.notes)) => op.result = NoMatch
    /\ op.name = "classify_notes" =>
          /\ op.result.type \in {"empty", "note", "interval", "chord", "notes"}
          /\ Len(op.notes) >= 2 /\ NoTemplate(ClusterIntervals(op.notes)) =>
                /\ op.result.type = IF Len(op.notes) = 2 THEN "interval" ELSE "notes"
                /\ op.result.notes = ArrivalNames(op.notes)
                /\ DOMAIN op.result \cap MatchFields = {}

C19_Witness ==
    /\ Classified(<<64, 127, 62>>)
    /\ NoTemplate(ClusterIntervals(op.notes))
    /\ op.result.type = "notes"
    /\ op.result.notes = <<"E4", "G9", "D4">>

\* classify_notes was called on two or more notes that a template matches
ClassifiedMatch ==
    /\ op.name = "classify_notes"
    /\ Len(op.notes) >= 2
    /\ ~NoTemplate(ClusterIntervals(op.notes))

\* C20 as stated: every matched cluster of two or more notes is classified
\* 'chord'; E3 B3 is a chord with root E and quality 5.
C20_MatchedIsChord ==
    /\ ClassifiedMatch => op.result.type = "chord"
    /\ Classified(<<52, 59>>) =>
          op.result.type = "chord" /\ op.result.root = "E" /\ op.result.quality = "5"

\* C20: a matched cluster of two or more notes carries the root and quality
\* of a template that has its interval set, and is tagged 'chord' exactly
\* when it has three or more pitch classes, 'interval' otherwise; E3 B3 is
\* the interval E5 with root E and quality 5.
C20_MatchedTag ==
    /\ ClassifiedMatch =>
          LET S == ClusterIntervals(op.notes)
              k == IndexOf(op.result.quality)
          IN  /\ op.result.inversion \in Rotations(k)
              /\ RotatedSet(k, op.result.inversion) = S
              /\ PitchClassOf(op.result.root)
                    = (LowestMidi(op.notes) + op.result.root_offset) % 12
              /\ op.result.type = IF Cardinality(S) >= 3 THEN "chord" ELSE "interval"
    /\ Classified(<<52, 59>>) =>
          /\ op.result.type = "interval"
          /\ op.result.root = "E"
          /\ op.result.quality = "5"
          /\ op.result.display_name = "E5"

C20_Witness ==
    /\ Classified(<<52, 59>>)
    /\ ClassifiedMatch
    /\ op.result.type = "interval"
    /\ op.result.quality = "5"

\* C21: the tag of a detect_chord match is 'chord' exactly when the notes
\* have three or more distinct pitch classes and 'interval' otherwise,
\* however many notes there are; C4 G4 C5 is the power chord, tagged
\* 'interval'.
C21_TagByPitchClasses ==
    /\ DetectedCluster /\ op.result # NoMatch =>
          (op.result.type = "chord" <=> Cardinality(ClusterIntervals(op.notes)) >= 3)
          /\ op.result.type \in {"chord", "interval"}
    /\ Detected(<<60, 67, 72>>) =>
          op.result # NoMatch /\ op.result.quality = "5" /\ op.result.type = "interval"

C21_Witness ==
    /\ Detected(<<60, 67, 72>>)
    /\ Len(op.notes) = 3
    /\ Cardinality(ClusterIntervals(op.notes)) = 2
    /\ op.result.quality = "5"
    /\ op.result.type = "interval"

\* root, quality and inversion of a detect_chord result, None for no match
Harmony(result) ==
    IF result = NoMatch THEN NoMatch
    ELSE [root |-> result.root, quality |-> result.quality,
          inversion |-> result.inversion]

\* C22: detect_chord gives the same root, quality and inversion (or no match
\* both times) for a note list and for the list with all notes moved by an
\* octave, or with one note other than the bass moved by an octave without
\* going below the bass.
C22_OctaveInvariance ==
    op.name = "detect_chord_octaves" => Harmony(op.result2) = Harmony(op.result)

\* C4 E4 G4 with the E alone moved an octave up
C22_Witness ==
    /\ op.name = "detect_chord_octaves"
    /\ op.notes = _create_notes(<<60, 64, 67>>)
    /\ op.notes2 = _create_notes(<<60, 76, 67>>)
    /\ op.result2.quality = "maj"
    /\ op.result2.root = "C"
    /\ op.result2.inversion = 0

\* C23: normalize_intervals of any list of offsets is strictly ascending,
\* lies within 0..11 and holds exactly the residues mod 12 of the offsets;
\* normalizing the result again gives the result.
C23_NormalizeIdempotent ==
    /\ op.name \in {"normalize_intervals", "normalize_twice"} =>
          /\ \A i \in 1..(Len(op.result) - 1) : op.result[i] < op.result[i + 1]
          /\ \A i \in 1..Len(op.result) : op.result[i] \in 0..11
          /\ \A i \in 1..Len(op.intervals) :
                \E j \in 1..Len(op.result) :
                    \E q \in (0 - 2)..2 : op.intervals[i] = op.result[j] + 12 * q
          /\ \A j \in 1..Len(op.result) :
                \E i \in 1..Len(op.intervals) :
                    \E q \in (0 - 2)..2 : op.intervals[i] = op.result[j] + 12 * q
    /\ op.name = "normalize_twice" => op.again = op.result

\* offsets -13, 19 and 7 have the residues 11, 7 and 7
C23_Witness ==
    /\ op.name = "normalize_twice"
    /\ op.intervals = <<0 - 13, 19, 7>>
    /\ op.result = <<7, 11>>
    /\ op.again = <<7, 11>>

\* the sections of a result laid end to end
RECURSIVE Flatten(_)
Flatten(sections) ==
    IF sections = <<>> THEN <<>> ELSE sections[1] \o Flatten(Tail(sections))

\* the number of the section that holds event number i, counting through
\* the sections in order
RECURSIVE SectionOf(_, _)
SectionOf(sections, i) ==
    IF i <= Len(sections[1]) THEN 1
    ELSE 1 + SectionOf(Tail(sections), i - Len(sections[1]))

C25_SectionCount ==
    op.name = "detect_sections" =>
        /\ op.result = <<>> <=> recorded_events = <<>>
        /\ Len(op.result) <= Len(recorded_events)
        /\ \A j \in 1..Len(op.result) : op.result[j] # <<>>

\* three events, the last two a threshold apart: one section
C25_Witness ==
    /\ op.name = "detect_sections"
    /\ op.pause_threshold = 40
    /\ Len(recorded_events) = 3
    /\ recorded_events[3].relative_time - recorded_events[2].relative_time = 40
    /\ Len(op.result) = 1
    /\ Len(op.result[1]) = 3

\* C26: after save_to_file and load_from_file of the saved file, the
\* raw-note log, the event log and the chord detection setting of the
\* loading recorder are those the saving recorder had when it saved.
C26_SaveLoadRoundTrip ==
    op.name = "load_from_file" =>
        /\ notes = op.saved.notes
        /\ recorded_events = op.saved.events
        /\ chord_detection_enabled = op.saved.chord_detection_enabled

\* a recording with a power chord and a single note, chord detection
\* switched off before saving, loaded by a new recorder
C26_Witness ==
    /\ op.name = "load_from_file"
    /\ recording_start_time = None
    /\ ~chord_detection_enabled
    /\ Len(notes) = 3
    /\ Len(recorded_events) = 2
    /\ \E i \in 1..2 : /\ "quality" \in DOMAIN recorded_events[i]
                      /\ recorded_events[i].quality = "5"
                      /\ recorded_events[i].pattern = <<0, 7>>

\* the text-view line expected for event number i: its number, its display
\* name marked as chord (with the inversion, if any) or as interval, its time
LineOfEvent(i, e) ==
    ToString(i) \o ". "
       \o (IF e.type = "chord"
           THEN "[Chord: " \o e.display_name \o "]"
                   \o (IF e.inversion > 0
                       THEN " (" \o _get_inversion_name(e.inversion) \o ")" ELSE "")
           ELSE IF e.type = "interval"
           THEN "[Interval: " \o e.display_name \o "]"
           ELSE e.display_name)
       \o " (" \o time_str(e.relative_time) \o ")"

\* the text-view line expected for raw note number i
LineOfNote(i, n) ==
    ToString(i) \o ". " \o n.note_name \o " (" \o time_str(n.relative_time)
       \o ", vel:" \o ToString(n.velocity) \o ")"

\* the text view has one line for each event, in the order of the event log
LinePerEvent ==
    /\ Len(op.lines) = Len(recorded_events)
    /\ \A i \in 1..Len(recorded_events) : op.lines[i] = LineOfEvent(i, recorded_events[i])

\* C27 as stated: whenever the event log is not empty the text view has as
\* many lines as there are events, whatever the chord detection setting, and
\* the lines of the chord and interval events are marked as such.
C27_LinePerEvent ==
    op.name = "get_notes_as_text" /\ recorded_events # <<>> =>
        /\ Len(op.lines) = Len(recorded_events)
        /\ \A i \in 1..Len(recorded_events) :
              recorded_events[i].type \in {"chord", "interval"} =>
                  op.lines[i] = LineOfEvent(i, recorded_events[i])

\* C27: with chord detection enabled and a non-empty event log the text view
\* has one numbered line for each event, in order, chords marked
\* '[Chord: ...]' and intervals '[Interval: ...]'; with chord detection
\* disabled, or with no event yet, it has one numbered line for each raw note.
C27_TextLines ==
    op.name = "get_notes_as_text" =>
        /\ chord_detection_enabled /\ recorded_events # <<>> => LinePerEvent
        /\ ~(chord_detection_enabled /\ recorded_events # <<>>) =>
              /\ Len(op.lines) = Len(notes)
              /\ \A i \in 1..Len(notes) : op.lines[i] = LineOfNote(i, notes[i])
        /\ op.result = IF notes = <<>> THEN "No notes recorded" ELSE join("\n", op.lines)

\* E4 G4 C5 played together two ticks after the start: C maj on its third
C27_Witness ==
    /\ op.name = "get_notes_as_text"
    /\ chord_detection_enabled
    /\ Len(notes) = 3
    /\ Len(recorded_events) = 1
    /\ op.lines = <<"1. [Chord: C maj] (1st inversion) (0.10s)">>
    /\ op.result = "1. [Chord: C maj] (1st inversion) (0.10s)"

\* the sequence-view item expected for an event: its display name, in
\* brackets exactly when it is a chord
ItemOfEvent(e) ==
    IF e.type = "chord" THEN "[" \o e.display_name \o "]" ELSE e.display_name

\* the sequence view has one item for each event, in the order of the event
\* log, joined by arrows
ItemPerEvent ==
    /\ Len(op.items) = Len(recorded_events)
    /\ \A i \in 1..Len(recorded_events) : op.items[i] = ItemOfEvent(recorded_events[i])
    /\ op.result = join(" → ", op.items)

\* C28 as stated: the sequence view of a non-empty event log is its events
\* joined by arrows, one item for each event, chords in brackets.
C28_ItemPerEvent ==
    op.name = "get_notes_sequence" /\ recorded_events # <<>> => ItemPerEvent

\* C28: with chord detection enabled and a non-empty event log the sequence
\* view is the events joined by arrows, one item for each event in order,
\* in brackets exactly when the event is a chord; otherwise it is the names
\* of the raw notes joined by arrows, and empty when there is no note. One
\* C maj chord alone gives '[C maj]'.
C28_SequenceItems ==
    op.name = "get_notes_sequence" =>
        /\ chord_detection_enabled /\ recorded_events # <<>> => ItemPerEvent
        /\ ~(chord_detection_enabled /\ recorded_events # <<>>) =>
              /\ op.items = [i \in 1..Len(notes) |-> notes[i].note_name]
              /\ op.result = join(" → ", op.items)
        /\ chord_detection_enabled /\ Len(recorded_events) = 1
              /\ recorded_events[1].display_name = "C maj"
              => op.result = "[C maj]"

\* G4 C5 E4 played together, the only event of the recording
C28_Witness ==
    /\ op.name = "get_notes_sequence"
    /\ chord_detection_enabled
    /\ Len(recorded_events) = 1
    /\ recorded_events[1].type = "chord"
    /\ recorded_events[1].notes = <<"G4", "C5", "E4">>
    /\ op.result = "[C maj]"

\* s is a prefix of t
IsPrefix(s, t) == Len(s) <= Len(t) /\ SubSeq(t, 1, Len(s)) = s

\* C29: every call other than clear_recording (start, ingest, stop,
\* set_chord_detection, and the passing of time) leaves the raw-note log and
\* the event log as prefixes of what they become; clear_recording empties
\* both.
C29_AppendOnly ==
    [][/\ op'.name # "clear_recording" =>
             /\ IsPrefix(notes, notes')
             /\ IsPrefix(recorded_events, recorded_events')
       /\ op'.name = "clear_recording" =>
             notes' = <<>> /\ recorded_events' = <<>>]_vars

\* a second start_recording with a note and an event already logged
C29_Witness ==
    /\ op.name = "start_recording"
    /\ Len(notes) >= 2
    /\ Len(recorded_events) >= 1
    /\ pending_notes = <<>>

\* how many entries of the list of names s are the name n
CountOf(n, s) == Cardinality({i \in 1..Len(s) : s[i] = n})

\* the member names of all events of the event log, event after event
RECURSIVE MemberNames(_)
MemberNames(events) ==
    IF events = <<>> THEN <<>> ELSE events[1].notes \o MemberNames(Tail(events))

\* C30: every note of the raw-note log is a member of exactly one event or of
\* the pending cluster: each pitch name occurs as often in the raw-note log
\* as in the events and the pending cluster together; with nothing pending
\* (after stop_recording) the events alone hold every raw note once.
C30_NoNoteLost ==
    LET held == MemberNames(recorded_events) \o note_names(pending_notes)
    IN  /\ Len(held) = Len(notes)
        /\ \A m \in Pitches :
              CountOf(midi_to_note(m), held) = CountOf(midi_to_note(m), note_names(notes))

\* C31: whenever the recorder is not recording the pending cluster is
\* empty, in every state reached by start_recording, add_note,
\* stop_recording, clear_recording, set_chord_detection and load_from_file.
C31_IdleHasNoPending == pending_notes # <<>> => is_recording

\* a recording loaded while a note is pending: the cluster is kept and the
\* recorder is still recording
C31_Witness ==
    /\ op.name = "load_from_file"
    /\ op.result
    /\ pending_notes # <<>>
    /\ is_recording

\* C32: the relative_time values along the event log never decrease, for
\* any sequence of start_recording, add_note (the clock never runs
\* backwards), stop_recording and set_chord_detection calls.
C32_RelativeTimeMonotone ==
    \A i \in 1..(Len(recorded_events) - 1) :
        recorded_events[i].relative_time <= recorded_events[i + 1].relative_time

\* detect_chord was called and a template matched
DetectedMatch == op.name = "detect_chord" /\ op.result # NoMatch

\* C33: every match is sound. With root r, template T and inversion k
\* reported for a cluster with interval set I over the bass pitch class b:
\* 0 <= k < len(T); the pitch classes of T over r are those of the cluster;
\* T[k] over r is the bass; and for an inversion r is b moved by
\* (12 - T[k]) mod 12, also when T[k] lies above the octave.
C33_MatchSound ==
    DetectedMatch =>
        LET T == op.result.pattern
            k == op.result.inversion
            r == PitchClassOf(op.result.root)
            b == LowestMidi(op.notes) % 12
            I == ClusterIntervals(op.notes)
        IN  /\ T = CHORD_PATTERNS[IndexOf(op.result.quality)].pattern
            /\ 0 <= k /\ k < Len(T)
            /\ {(r + T[i]) % 12 : i \in 1..Len(T)} = {(b + d) % 12 : d \in I}
            /\ (r + T[k + 1]) % 12 = b
            /\ k > 0 => r = (b + ((12 - T[k + 1]) % 12)) % 12

\* an inversion matched on a template note above the octave: C3 D3 F3 A#3
\* is A# add9 with its ninth (offset 14) in the bass
C33_Witness ==
    /\ DetectedMatch
    /\ op.result.inversion > 0
    /\ op.result.pattern[op.result.inversion + 1] > 12

\* the step is a flush: add_note or stop_recording takes the pending
\* cluster away
FlushStep ==
    /\ pending_notes # <<>>
    /\ op'.name \in {"add_note", "stop_recording"}
    /\ ~IsPrefix(pending_notes, pending_notes')

\* C34: every flush appends one event that carries the timestamp and the
\* relative_time of the first-arrived note of the cluster and the names of
\* the cluster's notes in arrival order, whatever the cluster classifies as.
C34_FlushedEvent ==
    [][FlushStep =>
          /\ Len(recorded_events') = Len(recorded_events) + 1
          /\ LET event == recorded_events'[Len(recorded_events')]
             IN  /\ event.timestamp = pending_notes[1].timestamp
                 /\ event.relative_time = pending_notes[1].relative_time
                 /\ event.notes = note_names(pending_notes)]_vars

\* A4, then C4, then G4 one tick later, flushed by stop_recording as one
\* unclassified group: the first-arrived note is neither the lowest nor the
\* last
C34_Witness ==
    /\ op.name = "stop_recording"
    /\ Len(notes) = 3
    /\ Len(recorded_events) = 1
    /\ recorded_events[1].type = "notes"
    /\ recorded_events[1].notes = <<"A4", "C4", "G4">>
    /\ recorded_events[1].timestamp = notes[1].timestamp
    /\ recorded_events[1].timestamp < notes[3].timestamp

\* C35: no event of the event log is an 'empty' classification and every
\* event has at least one member note; a stop_recording without pending
\* notes (right after start_recording, or after another stop_recording)
\* leaves the event log as it is.
C35_NoEmptyEvent ==
    [][/\ \A i \in 1..Len(recorded_events') :
             /\ recorded_events'[i].type # "empty"
             /\ Len(recorded_events'[i].notes) >= 1
       /\ op'.name = "stop_recording" /\ pending_notes = <<>> =>
             recorded_events' = recorded_events]_vars

\* a second stop_recording in a row, with an event already logged
C35_Witness ==
    /\ op.name = "stop_recording"
    /\ ~is_recording
    /\ pending_notes = <<>>
    /\ recorded_events # <<>>

\* the step is a successful load_from_file
LoadStep == op'.name = "load_from_file" /\ op'.result

\* the logs and the setting a successful load of the file f must leave
Loaded(f) ==
    IF f.json = SampleRecord
    THEN [notes |-> <<SampleNote>>,
          events |-> <<single_note_event(SampleNote)>>,
          chord_detection_enabled |-> FALSE]
    ELSE [notes |-> <<>>, events |-> <<>>, chord_detection_enabled |-> TRUE]

\* a successful load replaces the raw-note log, the event log and the
\* chord-detection flag by the file's and leaves the recording flag, the
\* start time, the pending cluster and the last-note time as they are
LoadFrame ==
    LoadStep =>
        /\ notes' = Loaded(op'.file).notes
        /\ recorded_events' = Loaded(op'.file).events
        /\ chord_detection_enabled' = Loaded(op'.file).chord_detection_enabled
        /\ UNCHANGED <<is_recording, recording_start_time, pending_notes,
                       last_note_time>>

\* the step is a stop_recording right after a successful load
StopAfterLoad ==
    op.name = "load_from_file" /\ op.result /\ op'.name = "stop_recording"

\* C36 as stated: a successful load has the frame above, so a stop_recording
\* right after a load, in any state, leaves the event log equal to the
\* loaded one.
C36_LoadThenStop ==
    [][/\ LoadFrame
       /\ StopAfterLoad => recorded_events' = recorded_events]_vars

\* C36: a successful load has the frame above; a stop_recording right after
\* it leaves the event log equal to the loaded one when no cluster was
\* pending, and else appends one event with the pending notes to it.
C36_LoadFrameAndStop ==
    [][/\ LoadFrame
       /\ StopAfterLoad /\ pending_notes = <<>> =>
             recorded_events' = recorded_events
       /\ StopAfterLoad /\ pending_notes # <<>> =>
             /\ Len(recorded_events') = Len(recorded_events) + 1
             /\ IsPrefix(recorded_events, recorded_events')
             /\ recorded_events'[Len(recorded_events')].notes
                   = note_names(pending_notes)]_vars

\* stop_recording after the load of the saved recording into a recorder with
\* a pending note: the loaded event and behind it the event of the pending
\* note, one raw note
C36_Witness ==
    /\ op.name = "stop_recording"
    /\ notes = <<SampleNote>>
    /\ Len(recorded_events) = 2
    /\ recorded_events[1] = single_note_event(SampleNote)
    /\ pending_notes = <<>>

\* the file is missing, unreadable, not JSON, or JSON that is not an object
FailingFile(f) ==
    \/ ~f.exists
    \/ ~f.readable
    \/ ~f.is_json
    \/ "object" \notin DOMAIN f.json

C38_ConnectionState ==
    /\ is_connected <=> get_connected_device # NoPort
    /\ [][/\ is_connected' <=> get_connected_device' # NoPort
          /\ op'.name = "connect" =>
                /\ op'.closed = input_port
                /\ ~op'.result => ~is_connected'
                /\ op'.result => /\ input_port' = op'.device_name
                                 /\ get_connected_device' = op'.device_name
          /\ ~is_connected => op'.name \notin {"add_note", "on_note_off"}]_vars

\* a connect() that failed while another device was connected: its port was
\* closed and the handler is disconnected
C38_Witness ==
    /\ op.name = "connect"
    /\ ~op.result
    /\ op.closed # NoPort
    /\ op.closed # op.device_name
    /\ ~is_connected
    /\ get_connected_device = NoPort

\* the step hands out the first waiting message
DeliveryStep ==
    /\ is_connected
    /\ port_messages # <<>>
    /\ op'.name \in {"add_note", "on_note_off", "poll_messages"}

\* C39: the loop of poll_messages takes the waiting messages one by one in
\* arrival order; a note_on of velocity > 0 reaches the note-on callback
\* only, a note_off or a note_on of velocity 0 the note-off callback only,
\* any other message no callback; the raw-note log grows only by a note_on
\* of velocity > 0 handed out so, and never holds a note of velocity 0.
C39_OneCallbackPerMessage ==
    [][/\ DeliveryStep =>
             LET msg == Head(port_messages)
                 pressed == msg.type = "note_on" /\ msg.velocity > 0
                 released == \/ msg.type = "note_off"
                             \/ (msg.type = "note_on" /\ msg.velocity = 0)
             IN  /\ port_messages' = Tail(port_messages)
                 /\ op'.name = "add_note" <=> pressed /\ note_on_callback # NoPort
                 /\ op'.name = "on_note_off" <=> released /\ note_off_callback # NoPort
                 /\ notes' # notes =>
                       /\ pressed
                       /\ Len(notes') = Len(notes) + 1
                       /\ IsPrefix(notes, notes')
                       /\ notes'[Len(notes')].midi_number = msg.note
                       /\ notes'[Len(notes')].velocity = msg.velocity
       /\ notes' # notes => DeliveryStep
       /\ op'.name \in {"add_note", "on_note_off"} => DeliveryStep
       /\ \A i \in 1..Len(notes') : notes'[i].velocity > 0]_vars

\* D4 released as a note_on of velocity 0 while a recording with a raw note
\* runs: the note-off callback got it and the raw-note log has no D4
C39_Witness ==
    /\ op.name = "on_note_off"
    /\ op.midi_number = 62
    /\ is_recording
    /\ notes # <<>>
    /\ \A i \in 1..Len(notes) : notes[i].midi_number # 62

====
